---- MODULE Spec2Model ----
(***************************************************************************)
(* Model of the asynchronous scan pipeline of cyber-recon-platform:        *)
(*   server/jobs.ts          startScanJob, executeScanJob, jobQueue        *)
(*   server/engine/runner.ts runFullScan, validateTarget                   *)
(*   server/db.ts            createScan, getScanById, updateScanStatus,    *)
(*                           saveScanResults, saveScanFindings             *)
(*   server/engine/*.ts      the stage probes and the normalizer           *)
(*                                                                         *)
(* Strings that the code inspects or builds (targets, host names, urls)    *)
(* are sequences of one-character strings.  Timestamps are not modelled,   *)
(* except that completedAt is either NULL or set.                          *)
(*                                                                         *)
(* Node runs each job as a chain of run-to-completion steps separated by   *)
(* awaits.  One action of the model is one such step: everything the code  *)
(* does between the resolution of one awaited call and the next await.     *)
(***************************************************************************)
EXTENDS Integers, Sequences, FiniteSets, TLC

\* ------------------------------------------------------------------------
\* Bounds of the model
\* ------------------------------------------------------------------------

\* Largest number of candidate names the asset-discovery probe returns.
MaxSubdomains == 2

\* Job identifiers (the values nanoid() returns in startScanJob).
Jobs == {"j1"}

\* SQL NULL / JavaScript null and undefined.
NULL == "NULL"

\* ------------------------------------------------------------------------
\* Character strings
\* ------------------------------------------------------------------------

Lower == {"a", "b", "c", "d", "e", "f", "g", "h", "i", "j", "k", "l", "m",
          "n", "o", "p", "q", "r", "s", "t", "u", "v", "w", "x", "y", "z"}

Upper == {"A", "B", "C", "D", "E", "F", "G", "H", "I", "J", "K", "L", "M",
          "N", "O", "P", "Q", "R", "S", "T", "U", "V", "W", "X", "Y", "Z"}

Digit == {"0", "1", "2", "3", "4", "5", "6", "7", "8", "9"}

Whitespace == {" "}

UpperSeq == <<"A", "B", "C", "D", "E", "F", "G", "H", "I", "J", "K", "L", "M",
              "N", "O", "P", "Q", "R", "S", "T", "U", "V", "W", "X", "Y", "Z">>

LowerSeq == <<"a", "b", "c", "d", "e", "f", "g", "h", "i", "j", "k", "l", "m",
              "n", "o", "p", "q", "r", "s", "t", "u", "v", "w", "x", "y", "z">>

\* String.prototype.toLowerCase on one character.
toLowerChar(c) ==
  IF c \in Upper
    THEN LowerSeq[CHOOSE i \in 1..26 : UpperSeq[i] = c]
    ELSE c

toLowerCase(s) == [i \in 1..Len(s) |-> toLowerChar(s[i])]

startsWith(s, p) == Len(s) >= Len(p) /\ SubSeq(s, 1, Len(p)) = p

substring(s, n) == SubSeq(s, n + 1, Len(s))

RECURSIVE trimStart(_)
trimStart(s) ==
  IF s # <<>> /\ Head(s) \in Whitespace THEN trimStart(Tail(s)) ELSE s

RECURSIVE trimEnd(_)
trimEnd(s) ==
  IF s # <<>> /\ s[Len(s)] \in Whitespace
    THEN trimEnd(SubSeq(s, 1, Len(s) - 1))
    ELSE s

trim(s) == trimEnd(trimStart(s))

HttpPrefix == <<"h", "t", "t", "p", ":", "/", "/">>

HttpsPrefix == <<"h", "t", "t", "p", "s", ":", "/", "/">>

WwwPrefix == <<"w", "w", "w", ".">>

\* A string of n copies of the character c.
Repeat(c, n) == [i \in 1..n |-> c]

\* ------------------------------------------------------------------------
\* runner.ts: validateTarget
\* ------------------------------------------------------------------------

\* [a-z0-9] under the i flag
AlnumChar(c) == c \in Lower \cup Upper \cup Digit

\* [a-z0-9]([a-z0-9-]*[a-z0-9])?  matched against a whole label
LabelMatches(l) ==
  /\ Len(l) >= 1
  /\ AlnumChar(l[1])
  /\ AlnumChar(l[Len(l)])
  /\ \A i \in 1..Len(l) : AlnumChar(l[i]) \/ l[i] = "-"

\* The pieces of s between the dots.
RECURSIVE SplitDots(_, _, _)
SplitDots(s, cur, acc) ==
  IF s = <<>> THEN Append(acc, cur)
  ELSE IF Head(s) = "." THEN SplitDots(Tail(s), <<>>, Append(acc, cur))
  ELSE SplitDots(Tail(s), Append(cur, Head(s)), acc)

\* /^([a-z0-9]([a-z0-9-]*[a-z0-9])?\.)+[a-z0-9]([a-z0-9-]*[a-z0-9])?$/i
\* A label holds no dot, so the string matches exactly when cutting it at
\* the dots leaves two or more pieces that each match the label pattern.
domainRegexTest(s) ==
  LET labels == SplitDots(s, <<>>, <<>>)
  IN  /\ Len(labels) >= 2
      /\ \A i \in 1..Len(labels) : LabelMatches(labels[i])

\* target.replace(/^https?:\/\//, "")
replaceScheme(s) ==
  IF startsWith(s, HttpPrefix) THEN substring(s, 7)
  ELSE IF startsWith(s, HttpsPrefix) THEN substring(s, 8)
  ELSE s

\* .replace(/^www\./, "")
replaceWww(s) == IF startsWith(s, WwwPrefix) THEN substring(s, 4) ELSE s

TargetMaxLength == 255

\* a validateTarget without the pattern test of lines 166-169
validateTarget_AnyShape(target) ==
  IF target = <<>> \/ Len(trim(target)) = 0
    THEN [valid |-> FALSE, error |-> "Target cannot be empty"]
  ELSE IF Len(target) > TargetMaxLength
    THEN [valid |-> FALSE, error |-> "Target is too long"]
  ELSE [valid |-> TRUE, error |-> NULL]

validateTarget(target) ==
  IF target = <<>> \/ Len(trim(target)) = 0
    THEN [valid |-> FALSE, error |-> "Target cannot be empty"]
  ELSE IF Len(target) > TargetMaxLength
    THEN [valid |-> FALSE, error |-> "Target is too long"]
  ELSE IF ~domainRegexTest(replaceWww(replaceScheme(target)))
    THEN [valid |-> FALSE, error |-> "Invalid domain format"]
  ELSE [valid |-> TRUE, error |-> NULL]

\* ------------------------------------------------------------------------
\* subdomains.ts: normalizeDomain
\* ------------------------------------------------------------------------

\* a normalizeDomain that strips the prefixes as they are written and
\* lower-cases what is left
normalizeDomain_LowersLast(domain) ==
  LET n0 == trim(domain)
      n1 == IF startsWith(n0, HttpPrefix) THEN substring(n0, 7)
            ELSE IF startsWith(n0, HttpsPrefix) THEN substring(n0, 8)
            ELSE n0
      n2 == IF startsWith(n1, WwwPrefix) THEN substring(n1, 4) ELSE n1
  IN  toLowerCase(IF n2 # <<>> /\ n2[Len(n2)] = "/"
                    THEN SubSeq(n2, 1, Len(n2) - 1)
                    ELSE n2)

normalizeDomain(domain) ==
  LET n0 == toLowerCase(trim(domain))
      n1 == IF startsWith(n0, HttpPrefix) THEN substring(n0, 7)
            ELSE IF startsWith(n0, HttpsPrefix) THEN substring(n0, 8)
            ELSE n0
      n2 == IF startsWith(n1, WwwPrefix) THEN substring(n1, 4) ELSE n1
  IN  IF n2 # <<>> /\ n2[Len(n2)] = "/"
        THEN SubSeq(n2, 1, Len(n2) - 1)
        ELSE n2

\* ------------------------------------------------------------------------
\* normalize.ts: the Normalizer
\* A NormalizedResult is [type, value, metadata, source]; discoveredAt is a
\* timestamp and is left out.
\* ------------------------------------------------------------------------

normalizeSubdomains(subdomains) ==
  [i \in 1..Len(subdomains) |->
     [type     |-> "subdomain",
      value    |-> subdomains[i].subdomain,
      metadata |-> [source |-> subdomains[i].source],
      source   |-> subdomains[i].source]]

\* Array.prototype.filter
RECURSIVE SelectAlive(_)
SelectAlive(hosts) ==
  IF hosts = <<>> THEN <<>>
  ELSE IF Head(hosts).isAlive
    THEN <<Head(hosts)>> \o SelectAlive(Tail(hosts))
    ELSE SelectAlive(Tail(hosts))

normalizeHosts(hosts) ==
  LET alive == SelectAlive(hosts)
  IN  [i \in 1..Len(alive) |->
         [type     |-> "host",
          value    |-> alive[i].host,
          metadata |-> [statusCode |-> alive[i].statusCode,
                        isAlive    |-> alive[i].isAlive],
          source   |-> "host-detection"]]

normalizeUrls(urls) ==
  [i \in 1..Len(urls) |->
     [type     |-> "url",
      value    |-> urls[i].url,
      metadata |-> [statusCode  |-> urls[i].statusCode,
                    contentType |-> urls[i].contentType],
      source   |-> "url-crawling"]]

normalizeFindings(findings) ==
  [i \in 1..Len(findings) |->
     [type     |-> "finding",
      value    |-> findings[i].title,
      metadata |-> [findingType |-> findings[i].type,
                    severity    |-> findings[i].severity,
                    evidence    |-> findings[i].evidence],
      source   |-> "vulnerability-scan"]]

\* a key that tells apart results of one kind and value by their metadata
ResultKey_WithMetadata(r) == <<r.type, r.value, r.metadata>>

\* a key made of the value alone
ResultKey_ValueOnly(r) == <<r.value>>

\* `${result.type}:${result.value}`: a type holds no colon, so two keys are
\* equal exactly when type and value both are.
ResultKey(r) == <<r.type, r.value>>

\* a loop in which the last result with a key takes the place of the first
RECURSIVE DedupFrom_KeepsLast(_, _, _)
DedupFrom_KeepsLast(results, seen, deduplicated) ==
  IF results = <<>> THEN deduplicated
  ELSE LET key == ResultKey(Head(results))
       IN  IF key \notin seen
             THEN DedupFrom_KeepsLast(Tail(results), seen \cup {key},
                                      Append(deduplicated, Head(results)))
             ELSE DedupFrom_KeepsLast(Tail(results), seen,
                    [i \in 1..Len(deduplicated) |->
                       IF ResultKey(deduplicated[i]) = key
                         THEN Head(results) ELSE deduplicated[i]])

\* a loop that forgets a key when it drops a result with it
RECURSIVE DedupFrom_Forgets(_, _, _)
DedupFrom_Forgets(results, seen, deduplicated) ==
  IF results = <<>> THEN deduplicated
  ELSE LET key == ResultKey(Head(results))
       IN  IF key \notin seen
             THEN DedupFrom_Forgets(Tail(results), seen \cup {key},
                                    Append(deduplicated, Head(results)))
             ELSE DedupFrom_Forgets(Tail(results), seen \ {key}, deduplicated)

RECURSIVE DedupFrom(_, _, _)
DedupFrom(results, seen, deduplicated) ==
  IF results = <<>> THEN deduplicated
  ELSE LET key == ResultKey(Head(results))
       IN  IF key \notin seen
             THEN DedupFrom(Tail(results), seen \cup {key},
                            Append(deduplicated, Head(results)))
             ELSE DedupFrom(Tail(results), seen, deduplicated)

deduplicateResults(results) == DedupFrom(results, {}, <<>>)

\* an order of the kinds with hosts first
typeOrder_HostsFirst(t) ==
  CASE t = "host"      -> 0
    [] t = "finding"   -> 1
    [] t = "url"       -> 2
    [] t = "subdomain" -> 3
    [] OTHER           -> 5

typeOrder(t) ==
  CASE t = "finding"   -> 0
    [] t = "host"      -> 1
    [] t = "url"       -> 2
    [] t = "subdomain" -> 3
    [] OTHER           -> 5

severityOrder(s) ==
  CASE s = "critical" -> 0
    [] s = "high"     -> 1
    [] s = "medium"   -> 2
    [] s = "low"      -> 3
    [] s = "info"     -> 4
    [] OTHER          -> 5

\* Collation rank of the characters that occur in hosts and urls: punctuation
\* before digits before letters, as String.prototype.localeCompare orders them.
CollationSeq ==
  <<"-", ":", ".", "/">> \o
  <<"0", "1", "2", "3", "4", "5", "6", "7", "8", "9">> \o LowerSeq

CharRank(c) ==
  LET lc == toLowerChar(c)
  IN  IF \E i \in 1..Len(CollationSeq) : CollationSeq[i] = lc
        THEN CHOOSE i \in 1..Len(CollationSeq) : CollationSeq[i] = lc
        ELSE 0

\* a.localeCompare(b): negative, zero or positive
RECURSIVE localeCompare(_, _)
localeCompare(a, b) ==
  IF a = <<>> /\ b = <<>> THEN 0
  ELSE IF a = <<>> THEN -1
  ELSE IF b = <<>> THEN 1
  ELSE IF CharRank(Head(a)) # CharRank(Head(b))
    THEN CharRank(Head(a)) - CharRank(Head(b))
  ELSE localeCompare(Tail(a), Tail(b))

\* The comparator handed to Array.prototype.sort in sortResults.
compareResults(a, b) ==
  LET typeCompare == typeOrder(a.type) - typeOrder(b.type)
  IN  IF typeCompare # 0 THEN typeCompare
      ELSE IF a.type = "finding"
        THEN severityOrder(a.metadata.severity) - severityOrder(b.metadata.severity)
      ELSE localeCompare(a.value, b.value)

\* a sort that puts an element in front of the elements it compares equal to
RECURSIVE InsertSorted_BeforeEqual(_, _)
InsertSorted_BeforeEqual(sorted, r) ==
  IF sorted = <<>> THEN <<r>>
  ELSE IF compareResults(r, Head(sorted)) <= 0 THEN <<r>> \o sorted
  ELSE <<Head(sorted)>> \o InsertSorted_BeforeEqual(Tail(sorted), r)

\* Array.prototype.sort is stable: an element goes behind every element it
\* does not compare smaller than.
RECURSIVE InsertSorted(_, _)
InsertSorted(sorted, r) ==
  IF sorted = <<>> THEN <<r>>
  ELSE IF compareResults(r, Head(sorted)) < 0 THEN <<r>> \o sorted
  ELSE <<Head(sorted)>> \o InsertSorted(Tail(sorted), r)

RECURSIVE SortFrom(_, _)
SortFrom(results, sorted) ==
  IF results = <<>> THEN sorted
  ELSE SortFrom(Tail(results), InsertSorted(sorted, Head(results)))

sortResults(results) == SortFrom(results, <<>>)

\* results.filter((r) => r.type === type).length
CountType(results, type) ==
  Cardinality({i \in 1..Len(results) : results[i].type = type})

\* results.filter((r) => r.type === "finding" && r.metadata.severity === severity).length
CountSeverity(results, severity) ==
  Cardinality({i \in 1..Len(results) :
                 /\ results[i].type = "finding"
                 /\ results[i].metadata.severity = severity})

generateSummary(results) ==
  [totalResults     |-> Len(results),
   subdomains       |-> CountType(results, "subdomain"),
   hosts            |-> CountType(results, "host"),
   urls             |-> CountType(results, "url"),
   findings         |-> CountType(results, "finding"),
   criticalFindings |-> CountSeverity(results, "critical"),
   highFindings     |-> CountSeverity(results, "high")]

\* ------------------------------------------------------------------------
\* The stage probes.  Each is a function of its argument and of what the
\* probed network answers; the answer is the last parameter.
\* ------------------------------------------------------------------------

\* subdomains.ts commonSubdomains, cut to the names the model enumerates
commonSubdomains ==
  <<<<"w", "w", "w">>, <<"m">>, <<"a", "p", "i">>, <<"d", "e", "v">>>>

\* discoverSubdomains(target) where the probe finds the first n names in the
\* certificate logs and, when again holds, its second source (the entries
\* pushed at lines 56-64) reports the first of them once more
discoverSubdomains(normalizedTarget, n, again) ==
  [i \in 1..n |->
     [subdomain |-> commonSubdomains[i] \o <<".">> \o normalizedTarget,
      source    |-> "certificate-transparency"]]
  \o (IF again
        THEN <<[subdomain |-> commonSubdomains[1] \o <<".">> \o normalizedTarget,
                source    |-> "dns-enumeration"]>>
        ELSE <<>>)

\* subdomains.map((s) => s.subdomain)
SubdomainNames(subs) == [i \in 1..Len(subs) |-> subs[i].subdomain]

\* detectLiveHosts(subdomains) where alive[i] tells whether name i answers;
\* only the hosts that answer are returned
RECURSIVE detectLiveHostsFrom(_, _, _)
detectLiveHostsFrom(names, alive, i) ==
  IF i > Len(names) THEN <<>>
  ELSE IF alive[i]
    THEN <<[host |-> names[i], isAlive |-> TRUE, statusCode |-> 200]>>
         \o detectLiveHostsFrom(names, alive, i + 1)
    ELSE detectLiveHostsFrom(names, alive, i + 1)

detectLiveHosts(names, alive) == detectLiveHostsFrom(names, alive, 1)

\* liveHosts.filter((h) => h.isAlive).map((h) => h.host)
LiveHostNames(liveHosts) ==
  LET alive == SelectAlive(liveHosts)
  IN  [i \in 1..Len(alive) |-> alive[i].host]

\* crawl.ts commonPaths, cut to the paths the model enumerates
commonPaths == <<<<"/">>, <<"/", "a", "d", "m", "i", "n">>>>

UrlScheme == <<"h", "t", "t", "p", "s", ":", "/", "/">>

\* crawlUrls(hosts) where the first k common paths are checked on each host
RECURSIVE crawlUrls(_, _)
crawlUrls(hosts, k) ==
  IF hosts = <<>> THEN <<>>
  ELSE [p \in 1..k |->
          [url         |-> UrlScheme \o Head(hosts) \o commonPaths[p],
           statusCode  |-> 200,
           contentType |-> "text/html"]]
       \o crawlUrls(Tail(hosts), k)

\* crawl.ts endpoints, cut to the paths the model enumerates
endpoints == <<<<"/", ".", "e", "n", "v">>>>

\* detectEndpoints(host) where found is the set of endpoints that answer
RECURSIVE detectEndpointsFrom(_, _, _)
detectEndpointsFrom(host, found, e) ==
  IF e > Len(endpoints) THEN <<>>
  ELSE IF e \in found
    THEN <<[url         |-> UrlScheme \o host \o endpoints[e],
            statusCode  |-> 200,
            contentType |-> "text/plain"]>>
         \o detectEndpointsFrom(host, found, e + 1)
    ELSE detectEndpointsFrom(host, found, e + 1)

detectEndpoints(host, found) == detectEndpointsFrom(host, found, 1)

FoundOn == <<"F", "o", "u", "n", "d", " ", "o", "n", " ">>

\* template_scan.ts vulnerabilityTemplates
vulnerabilityTemplates ==
  <<[type |-> "open-directory",      severity |-> "medium",
     title |-> <<"O", "p", "e", "n", " ", "D", "i", "r", "e", "c", "t", "o", "r", "y", " ", "L", "i", "s", "t", "i", "n", "g">>],
    [type |-> "outdated-software",   severity |-> "high",
     title |-> <<"O", "u", "t", "d", "a", "t", "e", "d", " ", "S", "o", "f", "t", "w", "a", "r", "e", " ", "D", "e", "t", "e", "c", "t", "e", "d">>],
    [type |-> "weak-ssl",            severity |-> "medium",
     title |-> <<"W", "e", "a", "k", " ", "S", "S", "L", "/", "T", "L", "S", " ", "C", "o", "n", "f", "i", "g", "u", "r", "a", "t", "i", "o", "n">>],
    [type |-> "missing-headers",     severity |-> "low",
     title |-> <<"M", "i", "s", "s", "i", "n", "g", " ", "S", "e", "c", "u", "r", "i", "t", "y", " ", "H", "e", "a", "d", "e", "r", "s">>],
    [type |-> "default-credentials", severity |-> "critical",
     title |-> <<"D", "e", "f", "a", "u", "l", "t", " ", "C", "r", "e", "d", "e", "n", "t", "i", "a", "l", "s", " ", "D", "e", "t", "e", "c", "t", "e", "d">>]>>

\* template_scan.ts misconfigurations
misconfigurations ==
  <<[type |-> "cors-misconfiguration", severity |-> "medium",
     title |-> <<"C", "O", "R", "S", " ", "M", "i", "s", "c", "o", "n", "f", "i", "g", "u", "r", "a", "t", "i", "o", "n">>],
    [type |-> "debug-mode",            severity |-> "high",
     title |-> <<"D", "e", "b", "u", "g", " ", "M", "o", "d", "e", " ", "E", "n", "a", "b", "l", "e", "d">>],
    [type |-> "exposed-config",        severity |-> "critical",
     title |-> <<"E", "x", "p", "o", "s", "e", "d", " ", "C", "o", "n", "f", "i", "g", "u", "r", "a", "t", "i", "o", "n", " ", "F", "i", "l", "e", "s">>]>>

\* { ...template, evidence: `Found on ${host}` }
FindingOn(template, host) ==
  [type     |-> template.type,
   severity |-> template.severity,
   title    |-> template.title,
   evidence |-> FoundOn \o host]

\* scanForVulnerabilities(hosts) where selected is the shuffled selection of
\* template numbers reported on each host
RECURSIVE scanForVulnerabilities(_, _)
scanForVulnerabilities(hosts, selected) ==
  IF hosts = <<>> THEN <<>>
  ELSE [t \in 1..Len(selected) |->
          FindingOn(vulnerabilityTemplates[selected[t]], Head(hosts))]
       \o scanForVulnerabilities(Tail(hosts), selected)

\* checkMisconfigurations(hosts) where m is the misconfiguration reported on
\* each host and 0 stands for none
RECURSIVE checkMisconfigurations(_, _)
checkMisconfigurations(hosts, m) ==
  IF hosts = <<>> \/ m = 0 THEN <<>>
  ELSE <<FindingOn(misconfigurations[m], Head(hosts))>>
       \o checkMisconfigurations(Tail(hosts), m)

\* ------------------------------------------------------------------------
\* State
\* ------------------------------------------------------------------------

VARIABLES
  databaseUrl,    \* process.env.DATABASE_URL is set
  db,             \* db.ts _db: NULL or the drizzle instance
  scans,          \* table scans: scan id -> row
  scanResults,    \* table scan_results: scan id -> rows with that scanId
  scanFindings,   \* table scan_findings: scan id -> rows with that scanId
  jobQueue,       \* jobs.ts jobQueue: Map scan id -> {status, error}
  pc,             \* where each startScanJob / executeScanJob stands
  target,         \* the target argument of each startScanJob call
  ret,            \* what each startScanJob call resolved with
  pending,        \* updateScanStatus calls whose UPDATE has not settled
  inflight,       \* stage probe calls that have not settled
  probeArg,       \* the argument of the probe call in flight
  calls,          \* the probes runFullScan has invoked so far, in order
  allResults,     \* runFullScan allResults
  errors,         \* runFullScan errors
  liveHostNames,  \* runFullScan liveHostNames
  epIndex,        \* runFullScan: position of the detectEndpoints loop
  vulnerabilities,\* runFullScan vulnerabilities
  results,        \* executeScanJob results (the value runFullScan returned)
  analysis,       \* executeScanJob analysis
  op,             \* the library function called directly, "none" before
  given,          \* the argument it was called with, as it was at the call
  arr,            \* the array object passed to it, as it is now
  retval,         \* the array it returned
  report          \* the ScanReport generateJsonReport resolved with

vars == <<databaseUrl, db, scans, scanResults, scanFindings, jobQueue, pc,
          target, ret, pending, inflight, probeArg, calls, allResults,
          errors, liveHostNames, epIndex, vulnerabilities, results, analysis,
          op, given, arr, retval, report>>

storeVars == <<scans, scanResults, scanFindings>>

libVars == <<op, given, arr, retval, report>>

runVars == <<inflight, probeArg, calls, allResults, errors, liveHostNames,
             epIndex, vulnerabilities>>

\* startScanJob has not resolved yet
Pending == "PENDING"

\* f with key k set to v, adding k when it is new (Map.set, INSERT)
MapSet(f, k, v) == [x \in DOMAIN f \cup {k} |-> IF x = k THEN v ELSE f[x]]

\* ------------------------------------------------------------------------
\* Inputs the model enumerates
\* ------------------------------------------------------------------------

LongTarget == Repeat("a", TargetMaxLength - 2) \o <<".", "c", "o">>

Targets ==
  { <<>>,
    <<" ">>,
    <<"h", "t", "t", "p", "s", ":", "/", "/", "w", "w", "w", ".", "B", ".", "c", "o">>,
    <<"a", ".", "c", "o", "/">>,
    <<"a", "_", "b">>,
    LongTarget }

\* a target validateTarget accepts
ValidTarget == <<"b", ".", "c", "o">>

ProbeErrors == {"probe failed"}

ExecError == "id generation failed"

\* what the asset-discovery probe answers: at most MaxSubdomains entries,
\* and a name is reported again only in the answer with one name
SubdomainChoices ==
  {c \in [n : 1..MaxSubdomains, again : BOOLEAN] :
     c.again => (c.n = 1 /\ c.n < MaxSubdomains)}

LiveChoices(names) == [1..Len(names) -> BOOLEAN]

CrawlChoices == {1}

EndpointChoices == SUBSET (1..Len(endpoints))

VulnChoices == { <<2, 5>> }

MisconfigChoices == {0, 2}

\* ------------------------------------------------------------------------
\* db.ts
\* ------------------------------------------------------------------------

\* getDb(): the instance is created on first use when a URL is configured
getDb == IF db = NULL /\ databaseUrl THEN "drizzle" ELSE db

\* the InsertScan value startScanJob hands to createScan, as the table
\* stores it: columns left out take their defaults
InsertScan(scanId, t) ==
  [id           |-> scanId,
   target       |-> t,
   status       |-> "queued",
   progress     |-> 0,
   totalSteps   |-> 4,
   currentStep  |-> NULL,
   errorMessage |-> NULL,
   completedAt  |-> NULL]

\* an updateScanStatus call: the UPDATE it sends
StatusWrite(status, progress, currentStep, awaited) ==
  [status |-> status, progress |-> progress, currentStep |-> currentStep,
   awaited |-> awaited]

\* updateScanStatus lines 143-157: the row after the UPDATE ... SET
ApplyStatusWrite(row, w) ==
  [row EXCEPT
     !.status      = w.status,
     !.progress    = w.progress,
     !.currentStep = IF w.currentStep # NULL THEN w.currentStep ELSE @,
     !.completedAt = IF w.status = "completed" THEN "set" ELSE @]

\* an UPDATE without its WHERE clause
UpdateScans_NoWhere(table, scanId, w) ==
  [k \in DOMAIN table |-> ApplyStatusWrite(table[k], w)]

\* the UPDATE ... WHERE id = scanId on the table
UpdateScans(table, scanId, w) ==
  IF scanId \in DOMAIN table
    THEN [table EXCEPT ![scanId] = ApplyStatusWrite(@, w)]
    ELSE table

AwaitedWrites(j) == {w \in pending[j] : w.awaited}

\* executeScanJob has no value from runFullScan yet
NoResults ==
  [target |-> <<>>, results |-> <<>>, summary |-> generateSummary(<<>>),
   errors |-> <<>>]

\* ------------------------------------------------------------------------
\* reports.ts: generateJsonReport
\* A string built by a template literal is the sequence of its pieces.
\* ------------------------------------------------------------------------

\* (r.data as Record<string, unknown>)[key] || "": the empty string when
\* the stored object has no such key
DataField(data, key) == IF key \in DOMAIN data THEN data[key] ELSE <<>>

\* lines 41-54: results.filter((r) => r.resultType === kind)
\*   .map((r) => r.data[key] || "").filter(Boolean)
RECURSIVE ExtractValues(_, _, _)
ExtractValues(rows, kind, key) ==
  IF rows = <<>> THEN <<>>
  ELSE IF Head(rows).resultType = kind /\ DataField(Head(rows).data, key) # <<>>
    THEN <<DataField(Head(rows).data, key)>> \o ExtractValues(Tail(rows), kind, key)
    ELSE ExtractValues(Tail(rows), kind, key)

\* f.severity || "info"
SeverityOrInfo(f) == IF f.severity = NULL THEN "info" ELSE f.severity

\* lines 57-58: findings.filter((f) => (f.severity || "info") === severity).length
CountFindings(findings, severity) ==
  Cardinality({i \in 1..Len(findings) : SeverityOrInfo(findings[i]) = severity})

\* a riskLevel that looks at high before critical
riskLevel_HighFirst(findings) ==
  IF CountFindings(findings, "high") > 0 THEN "high"
  ELSE IF CountFindings(findings, "critical") > 0 THEN "critical"
  ELSE IF Len(findings) > 0 THEN "medium"
  ELSE "low"

\* lines 60-63
riskLevel(findings) ==
  IF CountFindings(findings, "critical") > 0 THEN "critical"
  ELSE IF CountFindings(findings, "high") > 0 THEN "high"
  ELSE IF Len(findings) > 0 THEN "medium"
  ELSE "low"

\* line 67: filter((f) => f.severity === "critical" || f.severity === "high")
IsSevere(f) == f.severity = "critical" \/ f.severity = "high"

\* line 68: `Address ${f.findingType}: ${f.value}`
RecommendationLine(f) == <<"Address ", f.findingType, ": ">> \o f.value

RECURSIVE SevereLines(_)
SevereLines(findings) ==
  IF findings = <<>> THEN <<>>
  ELSE IF IsSevere(Head(findings))
    THEN <<RecommendationLine(Head(findings))>> \o SevereLines(Tail(findings))
    ELSE SevereLines(Tail(findings))

RecommendationCap == 5

\* Array.prototype.slice(0, n)
slice(a, n) == SubSeq(a, 1, IF Len(a) < n THEN Len(a) ELSE n)

\* recommendations without the cap
recommendations_Uncapped(findings) == SevereLines(findings)

\* lines 66-69
recommendations(findings) == slice(SevereLines(findings), RecommendationCap)

\* lines 85-91: the findings of the report
ReportFindings(findings) ==
  [i \in 1..Len(findings) |->
     [type     |-> findings[i].findingType,
      severity |-> SeverityOrInfo(findings[i]),
      title    |-> findings[i].value,
      evidence |-> DataField(findings[i].metadata, "evidence")]]

\* lines 37-99: the report built from the row of the scan and from what
\* getScanResults and getScanFindings return for it
ScanReport(scan, rows, findings) ==
  LET subdomains == ExtractValues(rows, "subdomain", "subdomain")
      liveHosts  == ExtractValues(rows, "host", "host")
      urls       == ExtractValues(rows, "url", "url")
  IN  [scanId          |-> scan.id,
       target          |-> scan.target,
       completedAt     |-> scan.completedAt,
       summary         |->
         [totalResults     |-> Len(subdomains) + Len(liveHosts) + Len(urls)
                                 + Len(findings),
          subdomains       |-> Len(subdomains),
          hosts            |-> Len(liveHosts),
          urls             |-> Len(urls),
          findings         |-> Len(findings),
          criticalFindings |-> CountFindings(findings, "critical"),
          highFindings     |-> CountFindings(findings, "high")],
       findings        |-> ReportFindings(findings),
       subdomains      |-> subdomains,
       liveHosts       |-> liveHosts,
       urls            |-> urls,
       riskLevel       |-> riskLevel(findings),
       recommendations |-> recommendations(findings)]

\* generateJsonReport(scanId) on the store as it is now, for a scan whose
\* row exists
generateJsonReport(scanId) ==
  ScanReport(scans[scanId], scanResults[scanId], scanFindings[scanId])

\* no report has been built yet
NoReport ==
  ScanReport(InsertScan(NULL, <<>>), <<>>, <<>>)

\* no library function has been called directly
NoLibraryCall ==
  /\ op = "none"
  /\ given = <<>>
  /\ arr = <<>>
  /\ retval = <<>>
  /\ report = NoReport

\* ------------------------------------------------------------------------
\* Init
\* ------------------------------------------------------------------------

Init ==
  /\ databaseUrl \in BOOLEAN
  /\ db = NULL
  /\ scans = <<>>
  /\ scanResults = [j \in Jobs |-> <<>>]
  /\ scanFindings = [j \in Jobs |-> <<>>]
  /\ jobQueue = <<>>
  /\ pc = [j \in Jobs |-> "idle"]
  /\ target = [j \in Jobs |-> <<>>]
  /\ ret = [j \in Jobs |-> Pending]
  /\ pending = [j \in Jobs |-> {}]
  /\ inflight = [j \in Jobs |-> {}]
  /\ probeArg = [j \in Jobs |-> <<>>]
  /\ calls = [j \in Jobs |-> <<>>]
  /\ allResults = [j \in Jobs |-> <<>>]
  /\ errors = [j \in Jobs |-> <<>>]
  /\ liveHostNames = [j \in Jobs |-> <<>>]
  /\ epIndex = [j \in Jobs |-> 0]
  /\ vulnerabilities = [j \in Jobs |-> <<>>]
  /\ results = [j \in Jobs |-> NoResults]
  /\ analysis = [j \in Jobs |-> NULL]
  /\ NoLibraryCall

\* ------------------------------------------------------------------------
\* jobs.ts: startScanJob
\* ------------------------------------------------------------------------

\* lines 29-48: validate the target, draw the scan id j, call createScan
StartScanJob(j, t) ==
  /\ pc[j] = "idle"
  /\ target' = [target EXCEPT ![j] = t]
  /\ IF ~validateTarget(t).valid
       THEN /\ ret' = [ret EXCEPT ![j] = NULL]
            /\ pc' = [pc EXCEPT ![j] = "rejected"]
       ELSE /\ ret' = ret
            /\ pc' = [pc EXCEPT ![j] = "createScan"]
  /\ UNCHANGED <<libVars, databaseUrl, db, storeVars, jobQueue, pending, runVars,
                 results, analysis>>

\* executeScanJob lines 75-79, run by the call at startScanJob line 59 up to
\* its first await: the registry entry becomes running and the first status
\* write is sent
LaunchExecuteScanJob(j, queue) ==
  /\ jobQueue' = MapSet(queue, j, [status |-> "running", error |-> NULL])
  /\ pending' = [pending EXCEPT ![j] =
                   @ \cup {StatusWrite("running", 0, "Starting scan", TRUE)}]
  /\ pc' = [pc EXCEPT ![j] = "updateRunning"]

\* createScan lines 96-100: the row is inserted unless no store is
\* configured or the INSERT raises
createScanInserts(dbv, outcome) ==
  dbv # NULL /\ outcome \in {"selectError", "ok"}

\* createScan lines 96-105: it returns the row (not null) when the INSERT
\* and the SELECT of getScanById both succeed
createScanReturnsRow(dbv, outcome) == dbv # NULL /\ outcome = "ok"

\* a startScanJob that never takes the branch of line 50
ScanMissing_Never(created) == FALSE

\* startScanJob line 50: if (!scan)
ScanMissing(created) == ~created

\* createScan settles and startScanJob runs lines 50-68.  outcome is what
\* the store does: the INSERT raises, the SELECT of getScanById raises, or
\* both succeed.
CreateScanReturn(j, outcome) ==
  /\ pc[j] = "createScan"
  /\ db' = getDb
  /\ LET inserted == createScanInserts(db', outcome)
         created == createScanReturnsRow(db', outcome)
     IN  /\ scans' = IF inserted
                       THEN MapSet(scans, j, InsertScan(j, target[j]))
                       ELSE scans
         /\ IF ScanMissing(created)
              THEN /\ ret' = [ret EXCEPT ![j] = NULL]
                   /\ pc' = [pc EXCEPT ![j] = "startFailed"]
                   /\ UNCHANGED <<jobQueue, pending>>
              ELSE /\ LaunchExecuteScanJob(j,
                        MapSet(jobQueue, j, [status |-> "pending", error |-> NULL]))
                   /\ ret' = [ret EXCEPT ![j] = j]
  /\ UNCHANGED <<libVars, databaseUrl, scanResults, scanFindings, target, runVars,
                 results, analysis>>

\* ------------------------------------------------------------------------
\* db.ts: updateScanStatus, the UPDATE of one call settling
\* ------------------------------------------------------------------------

\* the UPDATE is applied to the row
StatusWriteApplied(j, w) ==
  /\ w \in pending[j]
  /\ scans' = UpdateScans(scans, j, w)
  /\ pending' = [pending EXCEPT ![j] = @ \ {w}]
  /\ UNCHANGED <<libVars, databaseUrl, db, scanResults, scanFindings, jobQueue, pc,
                 target, ret, runVars, results, analysis>>

\* the UPDATE raises; updateScanStatus logs the error and returns
StatusWriteFailed(j, w) ==
  /\ w \in pending[j]
  /\ pending' = [pending EXCEPT ![j] = @ \ {w}]
  /\ UNCHANGED <<libVars, databaseUrl, db, storeVars, jobQueue, pc, target, ret,
                 runVars, results, analysis>>

\* ------------------------------------------------------------------------
\* runner.ts: runFullScan
\* ------------------------------------------------------------------------

\* Math.round((currentStep / totalSteps) * 100) for totalSteps = 4
StepPercent(step) == (step * 100 + 2) \div 4

\* onProgress?.(progress) with the callback of executeScanJob lines 82-84:
\* the callback calls updateScanStatus and nobody awaits it
ProgressWrite(step, label) ==
  StatusWrite("running", StepPercent(step), label, FALSE)

CompletedProgressWrite == StatusWrite("running", 100, "Completed", FALSE)

\* runFullScan calls one probe
Invoke(j, probe, arg) ==
  /\ inflight' = [inflight EXCEPT ![j] = {probe}]
  /\ probeArg' = [probeArg EXCEPT ![j] = arg]
  /\ calls' = [calls EXCEPT ![j] = Append(@, probe)]

\* runFullScan returns: its promise resolves with value
Return(j, value) ==
  /\ results' = [results EXCEPT ![j] = value]
  /\ pc' = [pc EXCEPT ![j] = "resultsReady"]

\* the first status write has settled: executeScanJob line 82 calls
\* runFullScan, which runs lines 45-72 up to the first probe
RunFullScan(j) ==
  /\ pc[j] = "updateRunning"
  /\ AwaitedWrites(j) = {}
  /\ pending' = [pending EXCEPT ![j] =
                   @ \cup {ProgressWrite(1, "Normalizing domain"),
                           ProgressWrite(2, "Discovering subdomains")}]
  /\ Invoke(j, "discoverSubdomains", normalizeDomain(target[j]))
  /\ pc' = [pc EXCEPT ![j] = "discoverSubdomains"]
  /\ UNCHANGED <<libVars, databaseUrl, db, storeVars, jobQueue, target, ret,
                 allResults, errors, liveHostNames, epIndex, vulnerabilities,
                 results, analysis>>

\* discoverSubdomains resolves: lines 73-86
DiscoverSubdomainsResolve(j, c) ==
  /\ pc[j] = "discoverSubdomains"
  /\ LET subdomains == discoverSubdomains(probeArg[j], c.n, c.again)
     IN  /\ allResults' = [allResults EXCEPT ![j] =
                             @ \o normalizeSubdomains(subdomains)]
         /\ Invoke(j, "detectLiveHosts", SubdomainNames(subdomains))
  /\ pending' = [pending EXCEPT ![j] =
                   @ \cup {ProgressWrite(3, "Detecting live hosts")}]
  /\ pc' = [pc EXCEPT ![j] = "detectLiveHosts"]
  /\ UNCHANGED <<libVars, databaseUrl, db, storeVars, jobQueue, target, ret, errors,
                 liveHostNames, epIndex, vulnerabilities, results, analysis>>

\* a runFullScan that crawls every candidate name, alive or not
DetectLiveHostsResolve_AllNames(j, alive) ==
  /\ pc[j] = "detectLiveHosts"
  /\ LET liveHosts == detectLiveHosts(probeArg[j], alive)
     IN  allResults' = [allResults EXCEPT ![j] = @ \o normalizeHosts(liveHosts)]
  /\ liveHostNames' = [liveHostNames EXCEPT ![j] = probeArg[j]]
  /\ Invoke(j, "crawlUrls", probeArg[j])
  /\ pc' = [pc EXCEPT ![j] = "crawlUrls"]
  /\ UNCHANGED <<libVars, databaseUrl, db, storeVars, jobQueue, target, ret, pending,
                 errors, epIndex, vulnerabilities, results, analysis>>

\* detectLiveHosts resolves: lines 87-92
DetectLiveHostsResolve(j, alive) ==
  /\ pc[j] = "detectLiveHosts"
  /\ LET liveHosts == detectLiveHosts(probeArg[j], alive)
     IN  /\ allResults' = [allResults EXCEPT ![j] = @ \o normalizeHosts(liveHosts)]
         /\ liveHostNames' = [liveHostNames EXCEPT ![j] = LiveHostNames(liveHosts)]
         /\ Invoke(j, "crawlUrls", LiveHostNames(liveHosts))
  /\ pc' = [pc EXCEPT ![j] = "crawlUrls"]
  /\ UNCHANGED <<libVars, databaseUrl, db, storeVars, jobQueue, target, ret, pending,
                 errors, epIndex, vulnerabilities, results, analysis>>

EndpointHostCap == 3

\* liveHostNames.slice(0, 3)
EndpointHosts(j) ==
  SubSeq(liveHostNames[j], 1,
         IF Len(liveHostNames[j]) < EndpointHostCap
           THEN Len(liveHostNames[j]) ELSE EndpointHostCap)

\* a runFullScan that starts both assessment probes at once
StartVulnerabilityScan_Both(j) ==
  /\ pending' = [pending EXCEPT ![j] =
                   @ \cup {ProgressWrite(4, "Scanning for vulnerabilities")}]
  /\ inflight' = [inflight EXCEPT ![j] =
                    {"scanForVulnerabilities", "checkMisconfigurations"}]
  /\ probeArg' = [probeArg EXCEPT ![j] = liveHostNames[j]]
  /\ calls' = [calls EXCEPT ![j] =
                 @ \o <<"scanForVulnerabilities", "checkMisconfigurations">>]
  /\ pc' = [pc EXCEPT ![j] = "scanForVulnerabilities"]

\* lines 103-112: the progress event of step 4, then the vulnerability scan
StartVulnerabilityScan(j) ==
  /\ pending' = [pending EXCEPT ![j] =
                   @ \cup {ProgressWrite(4, "Scanning for vulnerabilities")}]
  /\ Invoke(j, "scanForVulnerabilities", liveHostNames[j])
  /\ pc' = [pc EXCEPT ![j] = "scanForVulnerabilities"]

\* lines 97-98: the detectEndpoints loop goes to host number i, or ends
EndpointLoop(j, i) ==
  IF i <= Len(EndpointHosts(j))
    THEN /\ Invoke(j, "detectEndpoints", EndpointHosts(j)[i])
         /\ epIndex' = [epIndex EXCEPT ![j] = i]
         /\ pc' = [pc EXCEPT ![j] = "detectEndpoints"]
         /\ UNCHANGED pending
    ELSE /\ StartVulnerabilityScan(j)
         /\ UNCHANGED epIndex

\* crawlUrls resolves: lines 93-98
CrawlUrlsResolve(j, k) ==
  /\ pc[j] = "crawlUrls"
  /\ allResults' = [allResults EXCEPT ![j] =
                      @ \o normalizeUrls(crawlUrls(probeArg[j], k))]
  /\ EndpointLoop(j, 1)
  /\ UNCHANGED <<libVars, databaseUrl, db, storeVars, jobQueue, target, ret, errors,
                 liveHostNames, vulnerabilities, results, analysis>>

\* detectEndpoints resolves: lines 99-101
DetectEndpointsResolve(j, found) ==
  /\ pc[j] = "detectEndpoints"
  /\ allResults' = [allResults EXCEPT ![j] =
                      @ \o normalizeUrls(detectEndpoints(probeArg[j], found))]
  /\ EndpointLoop(j, epIndex[j] + 1)
  /\ UNCHANGED <<libVars, databaseUrl, db, storeVars, jobQueue, target, ret, errors,
                 liveHostNames, vulnerabilities, results, analysis>>

\* scanForVulnerabilities resolves: lines 112-113
ScanForVulnerabilitiesResolve(j, selected) ==
  /\ pc[j] = "scanForVulnerabilities"
  /\ vulnerabilities' = [vulnerabilities EXCEPT ![j] =
                           scanForVulnerabilities(probeArg[j], selected)]
  /\ Invoke(j, "checkMisconfigurations", liveHostNames[j])
  /\ pc' = [pc EXCEPT ![j] = "checkMisconfigurations"]
  /\ UNCHANGED <<libVars, databaseUrl, db, storeVars, jobQueue, target, ret, pending,
                 allResults, errors, liveHostNames, epIndex, results, analysis>>

\* checkMisconfigurations resolves: lines 114-137
CheckMisconfigurationsResolve(j, m) ==
  /\ pc[j] = "checkMisconfigurations"
  /\ LET allFindings == vulnerabilities[j] \o checkMisconfigurations(probeArg[j], m)
         all == allResults[j] \o normalizeFindings(allFindings)
         sortedResults == sortResults(deduplicateResults(all))
     IN  /\ allResults' = [allResults EXCEPT ![j] = all]
         /\ Return(j, [target  |-> normalizeDomain(target[j]),
                       results |-> sortedResults,
                       summary |-> generateSummary(sortedResults),
                       errors  |-> errors[j]])
  /\ pending' = [pending EXCEPT ![j] = @ \cup {CompletedProgressWrite}]
  /\ inflight' = [inflight EXCEPT ![j] = {}]
  /\ UNCHANGED <<libVars, databaseUrl, db, storeVars, jobQueue, target, ret, probeArg,
                 calls, errors, liveHostNames, epIndex, vulnerabilities,
                 analysis>>

ProbePcs == {"discoverSubdomains", "detectLiveHosts", "crawlUrls",
             "detectEndpoints", "scanForVulnerabilities",
             "checkMisconfigurations"}

\* a runFullScan without its catch: the error of the probe rejects its
\* promise and the catch of executeScanJob sends the failed write
ProbeRaise_Rejects(j, message) ==
  /\ pc[j] \in ProbePcs
  /\ errors' = [errors EXCEPT ![j] = Append(@, message)]
  /\ inflight' = [inflight EXCEPT ![j] = {}]
  /\ pending' = [pending EXCEPT ![j] =
                   @ \cup {StatusWrite("failed", 0, NULL, TRUE)}]
  /\ pc' = [pc EXCEPT ![j] = "updateFailed"]
  /\ UNCHANGED <<libVars, databaseUrl, db, storeVars, jobQueue, target, ret,
                 probeArg, calls, allResults, liveHostNames, epIndex,
                 vulnerabilities, results, analysis>>

\* a catch that still reports the run as completed to the progress callback
ProbeRaise_Progress(j, message) ==
  /\ pc[j] \in ProbePcs
  /\ errors' = [errors EXCEPT ![j] = Append(@, message)]
  /\ Return(j, [target  |-> target[j],
                results |-> allResults[j],
                summary |-> generateSummary(allResults[j]),
                errors  |-> errors'[j]])
  /\ inflight' = [inflight EXCEPT ![j] = {}]
  /\ pending' = [pending EXCEPT ![j] = @ \cup {CompletedProgressWrite}]
  /\ UNCHANGED <<libVars, databaseUrl, db, storeVars, jobQueue, target, ret,
                 probeArg, calls, allResults, liveHostNames, epIndex,
                 vulnerabilities, analysis>>

\* a catch that returns no results
ProbeRaise_Discard(j, message) ==
  /\ pc[j] \in ProbePcs
  /\ errors' = [errors EXCEPT ![j] = Append(@, message)]
  /\ Return(j, [target  |-> target[j],
                results |-> <<>>,
                summary |-> generateSummary(<<>>),
                errors  |-> errors'[j]])
  /\ inflight' = [inflight EXCEPT ![j] = {}]
  /\ UNCHANGED <<libVars, databaseUrl, db, storeVars, jobQueue, target, ret,
                 pending, probeArg, calls, allResults, liveHostNames, epIndex,
                 vulnerabilities, analysis>>

\* the probe in flight rejects: the catch of lines 138-150
ProbeRaise(j, message) ==
  /\ pc[j] \in ProbePcs
  /\ errors' = [errors EXCEPT ![j] = Append(@, message)]
  /\ Return(j, [target  |-> target[j],
                results |-> allResults[j],
                summary |-> generateSummary(allResults[j]),
                errors  |-> errors'[j]])
  /\ inflight' = [inflight EXCEPT ![j] = {}]
  /\ UNCHANGED <<libVars, databaseUrl, db, storeVars, jobQueue, target, ret, pending,
                 probeArg, calls, allResults, liveHostNames, epIndex,
                 vulnerabilities, analysis>>

\* ------------------------------------------------------------------------
\* jobs.ts: executeScanJob after runFullScan
\* ------------------------------------------------------------------------

\* lines 87-93: one scan_results row per result
ResultRecords(j, rs) ==
  [i \in 1..Len(rs) |->
     [scanId     |-> j,
      toolName   |-> rs[i].source,
      resultType |-> rs[i].type,
      data       |-> rs[i].metadata]]

RECURSIVE SelectFindings(_)
SelectFindings(rs) ==
  IF rs = <<>> THEN <<>>
  ELSE IF Head(rs).type = "finding"
    THEN <<Head(rs)>> \o SelectFindings(Tail(rs))
    ELSE SelectFindings(Tail(rs))

\* lines 98-107: one scan_findings row per result of type finding
FindingRecords(j, rs) ==
  LET fs == SelectFindings(rs)
  IN  [i \in 1..Len(fs) |->
         [scanId      |-> j,
          findingType |-> fs[i].metadata.findingType,
          value       |-> fs[i].value,
          severity    |-> fs[i].metadata.severity,
          metadata    |-> fs[i].metadata]]

\* an executeScanJob that sends the completed write before it stores the
\* results
SaveScanResultsCall_CompletesFirst(j) ==
  /\ pc[j] = "resultsReady"
  /\ pending' = [pending EXCEPT ![j] =
                   @ \cup {StatusWrite("completed", 100, "Completed", FALSE)}]
  /\ pc' = [pc EXCEPT ![j] = "saveScanResults"]
  /\ UNCHANGED <<libVars, databaseUrl, db, storeVars, jobQueue, target, ret,
                 runVars, results, analysis>>

\* the await of runFullScan resumes: lines 87-95 up to saveScanResults
SaveScanResultsCall(j) ==
  /\ pc[j] = "resultsReady"
  /\ pc' = [pc EXCEPT ![j] = "saveScanResults"]
  /\ UNCHANGED <<libVars, databaseUrl, db, storeVars, jobQueue, target, ret, pending,
                 runVars, results, analysis>>

\* the await of runFullScan resumes and building the rows raises (the id
\* generator is the one call of the try block that nothing guards): the catch
\* of lines 121-125 sends the failed write
ExecuteScanJobCatch(j) ==
  /\ pc[j] = "resultsReady"
  /\ pending' = [pending EXCEPT ![j] =
                   @ \cup {StatusWrite("failed", 0, NULL, TRUE)}]
  /\ pc' = [pc EXCEPT ![j] = "updateFailed"]
  /\ UNCHANGED <<libVars, databaseUrl, db, storeVars, jobQueue, target, ret, runVars,
                 results, analysis>>

\* a catch that leaves the registry entry as it is
ExecuteScanJobFailed_KeepsRunning(j) ==
  /\ pc[j] = "updateFailed"
  /\ AwaitedWrites(j) = {}
  /\ pc' = [pc EXCEPT ![j] = "done"]
  /\ UNCHANGED <<libVars, databaseUrl, db, storeVars, jobQueue, target, ret,
                 pending, runVars, results, analysis>>

\* the failed write has settled: line 126
ExecuteScanJobFailed(j) ==
  /\ pc[j] = "updateFailed"
  /\ AwaitedWrites(j) = {}
  /\ jobQueue' = MapSet(jobQueue, j, [status |-> "failed", error |-> ExecError])
  /\ pc' = [pc EXCEPT ![j] = "done"]
  /\ UNCHANGED <<libVars, databaseUrl, db, storeVars, target, ret, pending, runVars,
                 results, analysis>>

\* saveScanResults settles (the INSERT is done, or raises and is logged):
\* lines 98-109 up to saveScanFindings
SaveScanResultsReturn(j, ok) ==
  /\ pc[j] = "saveScanResults"
  /\ scanResults' =
       IF ok /\ Len(results[j].results) > 0
         THEN [scanResults EXCEPT ![j] = @ \o ResultRecords(j, results[j].results)]
         ELSE scanResults
  /\ pc' = [pc EXCEPT ![j] = "saveScanFindings"]
  /\ UNCHANGED <<libVars, databaseUrl, db, scans, scanFindings, jobQueue, target, ret,
                 pending, runVars, results, analysis>>

\* saveScanFindings settles: line 112 calls generateLLMAnalysis, which calls
\* invokeLLM
SaveScanFindingsReturn(j, ok) ==
  /\ pc[j] = "saveScanFindings"
  /\ scanFindings' =
       IF ok /\ Len(FindingRecords(j, results[j].results)) > 0
         THEN [scanFindings EXCEPT ![j] = @ \o FindingRecords(j, results[j].results)]
         ELSE scanFindings
  /\ pc' = [pc EXCEPT ![j] = "invokeLLM"]
  /\ UNCHANGED <<libVars, databaseUrl, db, scans, scanResults, jobQueue, target, ret,
                 pending, runVars, results, analysis>>

AnalysisPlaceholder == "Analysis generation failed"

\* a generateLLMAnalysis that lets the error of invokeLLM through to the
\* catch of executeScanJob
InvokeLLMReturn_Raises(j, ok) ==
  /\ pc[j] = "invokeLLM"
  /\ IF ok
       THEN /\ analysis' = [analysis EXCEPT ![j] = "analysis"]
            /\ pc' = [pc EXCEPT ![j] = "getScanById"]
            /\ UNCHANGED pending
       ELSE /\ pending' = [pending EXCEPT ![j] =
                             @ \cup {StatusWrite("failed", 0, NULL, TRUE)}]
            /\ pc' = [pc EXCEPT ![j] = "updateFailed"]
            /\ UNCHANGED analysis
  /\ UNCHANGED <<libVars, databaseUrl, db, storeVars, jobQueue, target, ret,
                 runVars, results>>

\* invokeLLM settles: generateLLMAnalysis lines 168-173, then line 115 calls
\* getScanById
InvokeLLMReturn(j, ok) ==
  /\ pc[j] = "invokeLLM"
  /\ analysis' = [analysis EXCEPT ![j] =
                    IF ok THEN "analysis" ELSE AnalysisPlaceholder]
  /\ pc' = [pc EXCEPT ![j] = "getScanById"]
  /\ UNCHANGED <<libVars, databaseUrl, db, storeVars, jobQueue, target, ret, pending,
                 runVars, results>>

\* an executeScanJob that sets the registry entry without the completed write
GetScanByIdReturn_NoWrite(j, ok) ==
  /\ pc[j] = "getScanById"
  /\ jobQueue' = MapSet(jobQueue, j, [status |-> "completed", error |-> NULL])
  /\ pc' = [pc EXCEPT ![j] = "done"]
  /\ UNCHANGED <<libVars, databaseUrl, db, storeVars, target, ret, pending,
                 runVars, results, analysis>>

\* getScanById settles with the row, or with null when the SELECT raises:
\* lines 116-120
GetScanByIdReturn(j, ok) ==
  /\ pc[j] = "getScanById"
  /\ LET found == ok /\ j \in DOMAIN scans
     IN  IF found
           THEN /\ pending' = [pending EXCEPT ![j] =
                       @ \cup {StatusWrite("completed", 100, "Completed", TRUE)}]
                /\ pc' = [pc EXCEPT ![j] = "updateCompleted"]
                /\ UNCHANGED jobQueue
           ELSE /\ jobQueue' = MapSet(jobQueue, j,
                                      [status |-> "completed", error |-> NULL])
                /\ pc' = [pc EXCEPT ![j] = "done"]
                /\ UNCHANGED pending
  /\ UNCHANGED <<libVars, databaseUrl, db, storeVars, target, ret, runVars, results,
                 analysis>>

\* the completed write has settled: line 120
ExecuteScanJobCompleted(j) ==
  /\ pc[j] = "updateCompleted"
  /\ AwaitedWrites(j) = {}
  /\ jobQueue' = MapSet(jobQueue, j, [status |-> "completed", error |-> NULL])
  /\ pc' = [pc EXCEPT ![j] = "done"]
  /\ UNCHANGED <<libVars, databaseUrl, db, storeVars, target, ret, pending, runVars,
                 results, analysis>>

\* jobs.ts lines 187-191: the ids whose registry entry is pending or running
getActiveJobs ==
  {k \in DOMAIN jobQueue : jobQueue[k].status \in {"pending", "running"}}

\* ------------------------------------------------------------------------
\* Specification
\* ------------------------------------------------------------------------

Next ==
  \E j \in Jobs :
    \/ \E t \in Targets : StartScanJob(j, t)
    \/ \E outcome \in {"insertError", "selectError", "ok"} : CreateScanReturn(j, outcome)
    \/ \E w \in pending[j] : StatusWriteApplied(j, w)
    \/ \E w \in pending[j] : StatusWriteFailed(j, w)
    \/ RunFullScan(j)
    \/ \E c \in SubdomainChoices : DiscoverSubdomainsResolve(j, c)
    \/ \E alive \in LiveChoices(probeArg[j]) : DetectLiveHostsResolve(j, alive)
    \/ \E k \in CrawlChoices : CrawlUrlsResolve(j, k)
    \/ \E found \in EndpointChoices : DetectEndpointsResolve(j, found)
    \/ \E selected \in VulnChoices : ScanForVulnerabilitiesResolve(j, selected)
    \/ \E m \in MisconfigChoices : CheckMisconfigurationsResolve(j, m)
    \/ \E message \in ProbeErrors : ProbeRaise(j, message)
    \/ SaveScanResultsCall(j)
    \/ ExecuteScanJobCatch(j)
    \/ ExecuteScanJobFailed(j)
    \/ \E ok \in BOOLEAN : SaveScanResultsReturn(j, ok)
    \/ \E ok \in BOOLEAN : SaveScanFindingsReturn(j, ok)
    \/ \E ok \in BOOLEAN : InvokeLLMReturn(j, ok)
    \/ \E ok \in BOOLEAN : GetScanByIdReturn(j, ok)
    \/ ExecuteScanJobCompleted(j)

Spec == Init /\ [][Next]_vars

\* ------------------------------------------------------------------------
\* The clean run: a store is configured and answers every call, no probe
\* raises, and nothing raises in executeScanJob.
\* ------------------------------------------------------------------------

\* a vulnerability scan may also report nothing
CleanVulnChoices == VulnChoices \cup {<<>>}

CleanInit == Init /\ databaseUrl

CleanNext ==
  \E j \in Jobs :
    \/ \E t \in Targets : StartScanJob(j, t)
    \/ CreateScanReturn(j, "ok")
    \/ \E w \in pending[j] : StatusWriteApplied(j, w)
    \/ RunFullScan(j)
    \/ \E c \in SubdomainChoices : DiscoverSubdomainsResolve(j, c)
    \/ \E alive \in LiveChoices(probeArg[j]) : DetectLiveHostsResolve(j, alive)
    \/ \E k \in CrawlChoices : CrawlUrlsResolve(j, k)
    \/ \E found \in EndpointChoices : DetectEndpointsResolve(j, found)
    \/ \E selected \in CleanVulnChoices : ScanForVulnerabilitiesResolve(j, selected)
    \/ \E m \in MisconfigChoices : CheckMisconfigurationsResolve(j, m)
    \/ SaveScanResultsCall(j)
    \/ SaveScanResultsReturn(j, TRUE)
    \/ SaveScanFindingsReturn(j, TRUE)
    \/ \E ok \in BOOLEAN : InvokeLLMReturn(j, ok)
    \/ GetScanByIdReturn(j, TRUE)
    \/ ExecuteScanJobCompleted(j)

\* what executeScanJob waits for after runFullScan has returned: the store
\* and the language model settle every call, and the continuation runs
CleanFairness ==
  \A j \in Jobs :
    /\ WF_vars(\E w \in pending[j] : StatusWriteApplied(j, w))
    /\ WF_vars(SaveScanResultsCall(j))
    /\ WF_vars(SaveScanResultsReturn(j, TRUE))
    /\ WF_vars(SaveScanFindingsReturn(j, TRUE))
    /\ WF_vars(\E ok \in BOOLEAN : InvokeLLMReturn(j, ok))
    /\ WF_vars(GetScanByIdReturn(j, TRUE))
    /\ WF_vars(ExecuteScanJobCompleted(j))

CleanRunSpec == CleanInit /\ [][CleanNext]_vars /\ CleanFairness

\* ------------------------------------------------------------------------
\* The fair run: a job in an environment in which a probe may raise and the
\* store may fail any call, and in which every call that is waited for
\* settles, one way or the other.  Discovery finds one name.
\* ------------------------------------------------------------------------

\* the probe call in flight raises or returns
ProbeSettles(j) ==
  \/ \E message \in ProbeErrors : ProbeRaise(j, message)
  \/ DiscoverSubdomainsResolve(j, [n |-> 1, again |-> FALSE])
  \/ \E alive \in LiveChoices(probeArg[j]) : DetectLiveHostsResolve(j, alive)
  \/ \E k \in CrawlChoices : CrawlUrlsResolve(j, k)
  \/ DetectEndpointsResolve(j, {})
  \/ \E selected \in VulnChoices : ScanForVulnerabilitiesResolve(j, selected)
  \/ CheckMisconfigurationsResolve(j, 0)

\* the store call waited for returns or raises
StoreSettles(j) ==
  \/ \E outcome \in {"insertError", "selectError", "ok"} : CreateScanReturn(j, outcome)
  \/ \E w \in pending[j] : StatusWriteApplied(j, w)
  \/ \E w \in pending[j] : StatusWriteFailed(j, w)
  \/ \E ok \in BOOLEAN : SaveScanResultsReturn(j, ok)
  \/ \E ok \in BOOLEAN : SaveScanFindingsReturn(j, ok)
  \/ \E ok \in BOOLEAN : GetScanByIdReturn(j, ok)

\* executeScanJob runs on when what it awaited has settled
Continues(j) ==
  \/ RunFullScan(j)
  \/ SaveScanResultsCall(j)
  \/ ExecuteScanJobCatch(j)
  \/ ExecuteScanJobFailed(j)
  \/ \E ok \in BOOLEAN : InvokeLLMReturn(j, ok)
  \/ ExecuteScanJobCompleted(j)

FairRunNext ==
  \E j \in Jobs :
    \/ StartScanJob(j, ValidTarget)
    \/ ProbeSettles(j)
    \/ StoreSettles(j)
    \/ Continues(j)

\* the event loop runs every continuation that is ready, and every probe
\* call and every store call settles
FairRunFairness ==
  \A j \in Jobs :
    /\ WF_vars(ProbeSettles(j))
    /\ WF_vars(StoreSettles(j))
    /\ WF_vars(Continues(j))

FairRunSpec == Init /\ [][FairRunNext]_vars /\ FairRunFairness

\* ------------------------------------------------------------------------
\* The wide run: a clean run in which discovery finds one name more than
\* the slice of line 97 keeps, and every name answers.
\* ------------------------------------------------------------------------

WideSubdomainChoice == [n |-> EndpointHostCap + 1, again |-> FALSE]

WideLiveChoice == [i \in 1..(EndpointHostCap + 1) |-> TRUE]

WideNext ==
  \E j \in Jobs :
    \/ StartScanJob(j, ValidTarget)
    \/ CreateScanReturn(j, "ok")
    \/ \E w \in pending[j] : StatusWriteApplied(j, w)
    \/ RunFullScan(j)
    \/ DiscoverSubdomainsResolve(j, WideSubdomainChoice)
    \/ DetectLiveHostsResolve(j, WideLiveChoice)
    \/ \E k \in CrawlChoices : CrawlUrlsResolve(j, k)
    \/ DetectEndpointsResolve(j, {})
    \/ \E selected \in VulnChoices : ScanForVulnerabilitiesResolve(j, selected)
    \/ CheckMisconfigurationsResolve(j, 0)
    \/ SaveScanResultsCall(j)
    \/ SaveScanResultsReturn(j, TRUE)
    \/ SaveScanFindingsReturn(j, TRUE)
    \/ InvokeLLMReturn(j, TRUE)
    \/ GetScanByIdReturn(j, TRUE)
    \/ ExecuteScanJobCompleted(j)

WideRunSpec == CleanInit /\ [][WideNext]_vars

\* ------------------------------------------------------------------------
\* Two jobs side by side: startScanJob is called twice with a store that
\* answers every call; the probes find one name, which is alive, and
\* nothing raises.
\* ------------------------------------------------------------------------

\* the scan ids of two calls of startScanJob
TwoJobs == {"j1", "j2"}

TwoJobInit ==
  /\ databaseUrl = TRUE
  /\ db = NULL
  /\ scans = <<>>
  /\ scanResults = [j \in TwoJobs |-> <<>>]
  /\ scanFindings = [j \in TwoJobs |-> <<>>]
  /\ jobQueue = <<>>
  /\ pc = [j \in TwoJobs |-> "idle"]
  /\ target = [j \in TwoJobs |-> <<>>]
  /\ ret = [j \in TwoJobs |-> Pending]
  /\ pending = [j \in TwoJobs |-> {}]
  /\ inflight = [j \in TwoJobs |-> {}]
  /\ probeArg = [j \in TwoJobs |-> <<>>]
  /\ calls = [j \in TwoJobs |-> <<>>]
  /\ allResults = [j \in TwoJobs |-> <<>>]
  /\ errors = [j \in TwoJobs |-> <<>>]
  /\ liveHostNames = [j \in TwoJobs |-> <<>>]
  /\ epIndex = [j \in TwoJobs |-> 0]
  /\ vulnerabilities = [j \in TwoJobs |-> <<>>]
  /\ results = [j \in TwoJobs |-> NoResults]
  /\ analysis = [j \in TwoJobs |-> NULL]
  /\ NoLibraryCall

TwoJobNext ==
  \E j \in TwoJobs :
    \/ StartScanJob(j, ValidTarget)
    \/ CreateScanReturn(j, "ok")
    \/ \E w \in pending[j] : StatusWriteApplied(j, w)
    \/ RunFullScan(j)
    \/ DiscoverSubdomainsResolve(j, [n |-> 1, again |-> FALSE])
    \/ DetectLiveHostsResolve(j, <<TRUE>>)
    \/ \E k \in CrawlChoices : CrawlUrlsResolve(j, k)
    \/ DetectEndpointsResolve(j, {})
    \/ \E selected \in VulnChoices : ScanForVulnerabilitiesResolve(j, selected)
    \/ CheckMisconfigurationsResolve(j, 0)
    \/ SaveScanResultsCall(j)
    \/ SaveScanResultsReturn(j, TRUE)
    \/ SaveScanFindingsReturn(j, TRUE)
    \/ InvokeLLMReturn(j, TRUE)
    \/ GetScanByIdReturn(j, TRUE)
    \/ ExecuteScanJobCompleted(j)

TwoJobSpec == TwoJobInit /\ [][TwoJobNext]_vars

\* ------------------------------------------------------------------------
\* The Report Synthesizer on its own: generateJsonReport is called in a
\* process that has run no job, on a store that holds the rows of an
\* earlier scan.
\* ------------------------------------------------------------------------

\* Largest number of rows of scan_findings the store holds for one scan.
MaxFindings == 6

\* the row of a scan whose completed write was applied
CompletedScan(j) ==
  ApplyStatusWrite(InsertScan(j, ValidTarget),
                   StatusWrite("completed", 100, "Completed", TRUE))

\* what runFullScan returned for the scan: nothing, the results of a run
\* whose crawl raised, and the results of a run that went through
PersistedResultLists ==
  LET subdomains == discoverSubdomains(ValidTarget, 2, FALSE)
      liveHosts  == detectLiveHosts(SubdomainNames(subdomains), <<TRUE, FALSE>>)
      hosts      == LiveHostNames(liveHosts)
      partial    == normalizeSubdomains(subdomains) \o normalizeHosts(liveHosts)
      all        == partial
                    \o normalizeUrls(crawlUrls(hosts, 1))
                    \o normalizeUrls(detectEndpoints(hosts[1], {1}))
                    \o normalizeFindings(scanForVulnerabilities(hosts, <<2, 5>>)
                                         \o checkMisconfigurations(hosts, 2))
  IN  { <<>>, partial, sortResults(deduplicateResults(all)) }

\* rows of scan_findings as executeScanJob lines 98-107 builds them: one of
\* each severity the templates have, and one whose severity was missing and
\* became info
FindingPool(j) ==
  LET host == commonSubdomains[1] \o <<".">> \o ValidTarget
      rows == FindingRecords(j, normalizeFindings(
                <<FindingOn(vulnerabilityTemplates[5], host),
                  FindingOn(vulnerabilityTemplates[2], host),
                  FindingOn(vulnerabilityTemplates[1], host),
                  FindingOn(vulnerabilityTemplates[4], host)>>))
  IN  {rows[i] : i \in 1..Len(rows)}
      \cup {[rows[4] EXCEPT !.findingType = "unknown", !.severity = "info"]}

\* what getScanFindings can return for a scan
FindingRowLists(j) ==
  UNION {[1..n -> FindingPool(j)] : n \in 0..MaxFindings}

\* the process has started no job
NoJob ==
  /\ db = NULL
  /\ jobQueue = <<>>
  /\ pc = [j \in Jobs |-> "idle"]
  /\ target = [j \in Jobs |-> <<>>]
  /\ ret = [j \in Jobs |-> Pending]
  /\ pending = [j \in Jobs |-> {}]
  /\ inflight = [j \in Jobs |-> {}]
  /\ probeArg = [j \in Jobs |-> <<>>]
  /\ calls = [j \in Jobs |-> <<>>]
  /\ allResults = [j \in Jobs |-> <<>>]
  /\ errors = [j \in Jobs |-> <<>>]
  /\ liveHostNames = [j \in Jobs |-> <<>>]
  /\ epIndex = [j \in Jobs |-> 0]
  /\ vulnerabilities = [j \in Jobs |-> <<>>]
  /\ results = [j \in Jobs |-> NoResults]
  /\ analysis = [j \in Jobs |-> NULL]

ReportInit ==
  /\ databaseUrl = TRUE
  /\ NoJob
  /\ NoLibraryCall
  /\ \/ \E rs \in PersistedResultLists :
          /\ scans \in {<<>>, [j \in Jobs |-> CompletedScan(j)]}
          /\ scanResults = [j \in Jobs |-> ResultRecords(j, rs)]
          /\ scanFindings = [j \in Jobs |-> FindingRecords(j, rs)]
     \/ /\ scans = [j \in Jobs |-> CompletedScan(j)]
        /\ scanResults = [j \in Jobs |-> <<>>]
        /\ scanFindings \in [Jobs -> UNION {FindingRowLists(j) : j \in Jobs}]

\* reports.ts lines 32-104: generateJsonReport(j) resolves with the report,
\* or with null when getScanById finds no row
GenerateJsonReport(j) ==
  /\ op = "none"
  /\ db' = getDb
  /\ given' = <<j>>
  /\ IF db' # NULL /\ j \in DOMAIN scans
       THEN /\ report' = generateJsonReport(j)
            /\ op' = "reported"
       ELSE /\ report' = report
            /\ op' = "noReport"
  /\ UNCHANGED <<databaseUrl, storeVars, jobQueue, pc, target, ret, pending,
                 runVars, results, analysis, arr, retval>>

ReportNext == \E j \in Jobs : GenerateJsonReport(j)

ReportSpec == ReportInit /\ [][ReportNext]_vars

\* ------------------------------------------------------------------------
\* The Normalizer on its own: deduplicateResults and sortResults are called
\* on a list of normalized results, in a process that has run no job.
\* ------------------------------------------------------------------------

\* Largest length of the list a normalizer function is called with.
MaxResults == 4

\* normalized results as the normalize functions build them: a name found
\* by two sources, the same name as a live host, a second host, a url, and
\* findings of three severities, one of them reported on two hosts
ResultPool ==
  LET subdomains == discoverSubdomains(ValidTarget, 2, TRUE)
      names      == SubdomainNames(subdomains)
      liveHosts  == detectLiveHosts(names, <<TRUE, TRUE, FALSE>>)
      hosts      == LiveHostNames(liveHosts)
      pool       == normalizeSubdomains(<<subdomains[1], subdomains[3]>>)
                    \o normalizeHosts(liveHosts)
                    \o normalizeUrls(crawlUrls(<<hosts[1]>>, 1))
                    \o normalizeFindings(scanForVulnerabilities(hosts, <<5>>))
                    \o normalizeFindings(scanForVulnerabilities(<<hosts[1]>>, <<2, 1>>))
  IN  {pool[i] : i \in 1..Len(pool)}

ResultLists == UNION {[1..n -> ResultPool] : n \in 0..MaxResults}

NormalizerInit ==
  /\ databaseUrl = FALSE
  /\ NoJob
  /\ scans = <<>>
  /\ scanResults = [j \in Jobs |-> <<>>]
  /\ scanFindings = [j \in Jobs |-> <<>>]
  /\ op = "none"
  /\ arr \in ResultLists
  /\ given = arr
  /\ retval = <<>>
  /\ report = NoReport

\* normalize.ts lines 17-30: deduplicateResults(arr) builds a new array
DeduplicateResults ==
  /\ op = "none"
  /\ retval' = deduplicateResults(arr)
  /\ op' = "deduplicated"
  /\ UNCHANGED <<databaseUrl, db, storeVars, jobQueue, pc, target, ret,
                 pending, runVars, results, analysis, given, arr, report>>

\* deduplicateResults is called again, with the array it returned
DeduplicateAgain ==
  /\ op = "deduplicated"
  /\ given' = retval
  /\ retval' = deduplicateResults(retval)
  /\ op' = "deduplicatedAgain"
  /\ UNCHANGED <<databaseUrl, db, storeVars, jobQueue, pc, target, ret,
                 pending, runVars, results, analysis, arr, report>>

\* normalize.ts lines 110-129: sortResults(arr) sorts the array itself and
\* returns it
SortResults ==
  /\ op = "none"
  /\ arr' = sortResults(arr)
  /\ retval' = arr'
  /\ op' = "sorted"
  /\ UNCHANGED <<databaseUrl, db, storeVars, jobQueue, pc, target, ret,
                 pending, runVars, results, analysis, given, report>>

\* sortResults is called again, with the array it sorted
SortAgain ==
  /\ op = "sorted"
  /\ given' = arr
  /\ arr' = sortResults(arr)
  /\ retval' = arr'
  /\ op' = "sortedAgain"
  /\ UNCHANGED <<databaseUrl, db, storeVars, jobQueue, pc, target, ret,
                 pending, runVars, results, analysis, report>>

\* normalize.ts lines 134-148: generateSummary(arr) returns the counts
GenerateSummary ==
  /\ op = "none"
  /\ retval' = generateSummary(arr)
  /\ op' = "summarized"
  /\ UNCHANGED <<databaseUrl, db, storeVars, jobQueue, pc, target, ret,
                 pending, runVars, results, analysis, given, arr, report>>

NormalizerNext ==
  \/ DeduplicateResults
  \/ DeduplicateAgain
  \/ SortResults
  \/ SortAgain
  \/ GenerateSummary

NormalizerSpec == NormalizerInit /\ [][NormalizerNext]_vars

\* ------------------------------------------------------------------------
\* Targets on their own: validateTarget and normalizeDomain are called on a
\* target string, in a process that has run no job.
\* ------------------------------------------------------------------------

\* "https://www.Example.com/" and "example.com"
ExampleUrl ==
  <<"h", "t", "t", "p", "s", ":", "/", "/", "w", "w", "w", ".", "E", "x", "a", "m", "p", "l", "e", ".", "c", "o", "m", "/">>

ExampleDomain == <<"e", "x", "a", "m", "p", "l", "e", ".", "c", "o", "m">>

\* what a caller may write in front of a domain: nothing, a scheme, a
\* scheme in capitals
SchemeParts == {<<>>, HttpPrefix, HttpsPrefix, <<"H", "T", "T", "P", "S", ":", "/", "/">>}

WwwParts == {<<>>, WwwPrefix, <<"W", "w", "w", ".">>}

\* domains as a caller writes them, each with its lower-case form
DomainBodies ==
  {[raw |-> <<"E", "x", "a", "m", "p", "l", "e", ".", "c", "o", "m">>, canon |-> ExampleDomain],
   [raw |-> ValidTarget, canon |-> ValidTarget],
   [raw |-> <<"B", ".", "c", "o">>, canon |-> ValidTarget],
   [raw |-> <<"a", "-", "1", ".", "C", "o">>, canon |-> <<"a", "-", "1", ".", "c", "o">>]}

SlashParts == {<<>>, <<"/">>}

PadParts == {<<>>, <<" ">>}

\* strings that are no domain: no dot, an underscore, an empty label, a
\* label that starts with a hyphen, a path
NoDomains ==
  {<<"l", "o", "c", "a", "l", "h", "o", "s", "t">>, <<"a", "_", "b", ".", "c", "o">>, <<"b", ".", ".", "c", "o">>, <<"-", "a", ".", "c", "o">>, <<"b", ".", "c", "o", "/", "x">>}

\* targets in which a part normalizeDomain strips stands twice, and the
\* domain www.co in capitals and behind www.
StackedTargets ==
  {<<"w", "w", "w", ".", "w", "w", "w", ".", "b", ".", "c", "o">>,
   <<"h", "t", "t", "p", ":", "/", "/", "h", "t", "t", "p", ":", "/", "/", "b", ".", "c", "o">>,
   <<"b", ".", "c", "o", "/", "/">>,
   <<"W", "W", "W", ".", "c", "o">>,
   <<"w", "w", "w", ".", "w", "w", "w", ".", "c", "o">>}

TargetInputs ==
  {pad \o sch \o w \o b.raw \o sl :
     pad \in PadParts, sch \in SchemeParts, w \in WwwParts,
     b \in DomainBodies, sl \in SlashParts}
  \cup {sch \o w \o b :
          sch \in SchemeParts, w \in WwwParts, b \in NoDomains}
  \cup Targets
  \cup StackedTargets

TargetInit ==
  /\ databaseUrl = FALSE
  /\ NoJob
  /\ scans = <<>>
  /\ scanResults = [j \in Jobs |-> <<>>]
  /\ scanFindings = [j \in Jobs |-> <<>>]
  /\ op = "none"
  /\ given \in TargetInputs
  /\ arr = <<>>
  /\ retval = <<>>
  /\ report = NoReport

\* runner.ts lines 156-172: validateTarget(given) returns its verdict
ValidateTarget ==
  /\ op = "none"
  /\ retval' = validateTarget(given)
  /\ op' = "validated"
  /\ UNCHANGED <<databaseUrl, db, storeVars, jobQueue, pc, target, ret,
                 pending, runVars, results, analysis, given, arr, report>>

\* subdomains.ts lines 80-99: normalizeDomain(given) returns the domain
NormalizeDomain ==
  /\ op = "none"
  /\ retval' = normalizeDomain(given)
  /\ op' = "normalized"
  /\ UNCHANGED <<databaseUrl, db, storeVars, jobQueue, pc, target, ret,
                 pending, runVars, results, analysis, given, arr, report>>

\* normalizeDomain is called again, with the string it returned
NormalizeAgain ==
  /\ op = "normalized"
  /\ given' = retval
  /\ retval' = normalizeDomain(retval)
  /\ op' = "normalizedAgain"
  /\ UNCHANGED <<databaseUrl, db, storeVars, jobQueue, pc, target, ret,
                 pending, runVars, results, analysis, arr, report>>

\* validateTarget is called with the string normalizeDomain(given) returned
ValidateNormalized ==
  /\ op = "normalized"
  /\ retval' = validateTarget(retval)
  /\ op' = "validatedNormalized"
  /\ UNCHANGED <<databaseUrl, db, storeVars, jobQueue, pc, target, ret,
                 pending, runVars, results, analysis, given, arr, report>>

TargetNext ==
  \/ ValidateTarget
  \/ NormalizeDomain
  \/ NormalizeAgain
  \/ ValidateNormalized

TargetSpec == TargetInit /\ [][TargetNext]_vars

\* ------------------------------------------------------------------------
\* Properties
\* ------------------------------------------------------------------------

\* executeScanJob has been launched for j
Launched(j) == pc[j] \notin {"idle", "rejected", "createScan", "startFailed"}

\* a stage probe of j raised (runFullScan pushed its message to errors)
ProbeRaised(j) == errors[j] # <<>>

TerminalStatus == {"completed", "failed"}

\* C1: when a stage probe raises during a job, the job never reaches
\* status completed, neither in its durable record nor in the in-memory
\* registry (it is to settle with status failed in both).
C1_ProbeErrorNeverCompletes ==
  \A j \in Jobs :
    ProbeRaised(j) =>
      /\ j \in DOMAIN scans => scans[j].status # "completed"
      /\ j \in DOMAIN jobQueue => jobQueue[j].status # "completed"

\* one step of a status sequence that is a subsequence of
\* queued, running, then completed or failed
StatusStepLegal(a, b) ==
  \/ a = b
  \/ a = "queued" /\ b \in {"running", "completed", "failed"}
  \/ a = "running" /\ b \in TerminalStatus

\* C2: the status of a job's durable record only moves forward along
\* queued, running, completed or failed, and never changes once it is
\* completed or failed, whatever the order in which the writes settle.
C2_StatusOnlyMovesForward ==
  [][\A j \in DOMAIN scans : StatusStepLegal(scans[j].status, scans'[j].status)]_vars

\* C3: the progress values written to a job's durable record never decrease,
\* the write of a failed outcome included.
C3_ProgressNeverDecreases ==
  [][\A j \in DOMAIN scans : scans'[j].progress >= scans[j].progress]_vars

\* C4: a durable record holds progress 100 only if its status is completed.
C4_FullProgressOnlyWhenCompleted ==
  \A j \in DOMAIN scans :
    scans[j].progress = 100 => scans[j].status = "completed"

\* C5: once a durable record is completed or failed, no later step changes
\* any of its fields, progress writes sent before the terminal write included.
C5_TerminalRecordImmutable ==
  [][\A j \in DOMAIN scans :
       scans[j].status \in TerminalStatus => scans'[j] = scans[j]]_vars

\* C6: a durable record with status failed has its errorMessage set.
C6_FailedRecordHasErrorMessage ==
  \A j \in DOMAIN scans :
    scans[j].status = "failed" => scans[j].errorMessage # NULL

\* C7: when createScan fails (no store, the INSERT raises, or the row cannot be
\* read back), startScanJob resolves with null, the registry has no entry for
\* the job and executeScanJob is never launched; and startScanJob resolves
\* with the job id only when the durable record with that id exists, created
\* with status queued, progress 0 and totalSteps 4.
C7_NoJobWithoutRecord ==
  \A j \in Jobs :
    /\ pc[j] = "startFailed" =>
         /\ ret[j] = NULL
         /\ j \notin DOMAIN jobQueue
    /\ (validateTarget(target[j]).valid /\ ret[j] = NULL) =>
         /\ ~Launched(j)
         /\ j \notin DOMAIN jobQueue
         /\ pending[j] = {}
         /\ calls[j] = <<>>
    /\ ret[j] \notin {Pending, NULL} =>
         /\ ret[j] = j
         /\ Launched(j)
         /\ j \in DOMAIN scans
         /\ scans[j].id = j
         /\ scans[j].totalSteps = 4
    /\ (pc[j] = "updateRunning" /\ AwaitedWrites(j) # {}) =>
         /\ ret[j] = j
         /\ scans[j] = InsertScan(j, target[j])

\* createScan failed for some job although its target was valid
C7_Witness ==
  \E j \in Jobs :
    /\ pc[j] = "startFailed"
    /\ validateTarget(target[j]).valid
    /\ ret[j] = NULL

\* C8: when validateTarget rejects the target, no durable record and no
\* registry entry is created, no pipeline is launched, and the caller of
\* startScanJob receives the validation reason.
C8_RejectedTargetReturnsReason ==
  \A j \in Jobs :
    pc[j] = "rejected" =>
      /\ j \notin DOMAIN scans
      /\ j \notin DOMAIN jobQueue
      /\ calls[j] = <<>>
      /\ ret[j] = validateTarget(target[j]).error

\* C9: startScanJob resolves with the job id as soon as the job is launched,
\* what it resolved with is not an error of the pipeline, and every error
\* raised after the launch is recorded against the job once the job settles.
C9_ErrorsRecordedAgainstJob ==
  \A j \in Jobs :
    /\ Launched(j) => ret[j] = j
    /\ (pc[j] = "done" /\ ProbeRaised(j)) =>
         \/ jobQueue[j].error # NULL
         \/ scans[j].errorMessage # NULL

ProbeOrder ==
  <<"discoverSubdomains", "detectLiveHosts", "crawlUrls", "detectEndpoints",
    "scanForVulnerabilities", "checkMisconfigurations">>

ProbeRank(p) == CHOOSE r \in 1..Len(ProbeOrder) : ProbeOrder[r] = p

\* C10: within one runFullScan the probes are invoked in the fixed order
\* asset discovery, liveness, URL crawl, endpoint detection (once per capped
\* live host), vulnerability scan, misconfiguration check; a probe is
\* invoked only when the one before it has resolved, so at most one probe
\* call of a job is in flight.
C10_ProbesSequential ==
  \A j \in Jobs :
    LET cs == calls[j]
    IN  /\ Cardinality(inflight[j]) <= 1
        /\ inflight[j] # {} => cs # <<>> /\ inflight[j] = {cs[Len(cs)]}
        /\ cs # <<>> => cs[1] = "discoverSubdomains"
        /\ \A i \in 1..(Len(cs) - 1) :
             \/ ProbeRank(cs[i + 1]) = ProbeRank(cs[i]) + 1
             \/ cs[i] = "detectEndpoints" /\ cs[i + 1] = "detectEndpoints"
             \/ cs[i] = "crawlUrls" /\ cs[i + 1] = "scanForVulnerabilities"
                  /\ liveHostNames[j] = <<>>
        /\ Cardinality({i \in 1..Len(cs) : cs[i] = "detectEndpoints"})
             <= EndpointHostCap

\* all six probes have been invoked, endpoint detection for two hosts, and
\* the last one is in flight
C10_Witness ==
  \E j \in Jobs :
    /\ calls[j] = <<"discoverSubdomains", "detectLiveHosts", "crawlUrls",
                    "detectEndpoints", "detectEndpoints",
                    "scanForVulnerabilities", "checkMisconfigurations">>
    /\ inflight[j] = {"checkMisconfigurations"}

\* the values of the results of one kind, in their order
RECURSIVE ValuesOfType(_, _)
ValuesOfType(rs, type) ==
  IF rs = <<>> THEN <<>>
  ELSE IF Head(rs).type = type
    THEN <<Head(rs).value>> \o ValuesOfType(Tail(rs), type)
    ELSE ValuesOfType(Tail(rs), type)

\* the probe call that raised, once one has
RaisedIn(j) == calls[j][Len(calls[j])]

\* the progress writes of j that are in flight
ProgressWrites(j) == {w \in pending[j] : ~w.awaited}

\* what runFullScan returned after a probe raised: the accumulated results
\* as they are, and the message; the results are those of the stages that
\* resolved (candidate names once discovery resolved, the live hosts once
\* the liveness probe resolved, urls once the crawl resolved, and no
\* finding, the assessment stage not having resolved)
C11_PartialResults(j) ==
  LET r == results[j]
  IN  /\ inflight[j] = {}
      /\ Len(r.errors) = 1
      /\ r.errors[1] \in ProbeErrors
      /\ r.results = allResults[j]
      /\ r.summary = generateSummary(allResults[j])
      /\ r.summary.totalResults = Len(r.results)
      /\ (ValuesOfType(r.results, "subdomain") = <<>>)
           <=> (RaisedIn(j) = "discoverSubdomains")
      /\ ValuesOfType(r.results, "host") = liveHostNames[j]
      /\ RaisedIn(j) \in {"discoverSubdomains", "detectLiveHosts"}
           => liveHostNames[j] = <<>>
      /\ RaisedIn(j) \in {"discoverSubdomains", "detectLiveHosts", "crawlUrls"}
           => ValuesOfType(r.results, "url") = <<>>
      /\ (RaisedIn(j) \notin {"discoverSubdomains", "detectLiveHosts", "crawlUrls"}
             /\ liveHostNames[j] # <<>>)
           => ValuesOfType(r.results, "url") # <<>>
      /\ ValuesOfType(r.results, "finding") = <<>>

PastSaveScanResults(j) ==
  pc[j] \in {"saveScanFindings", "invokeLLM", "getScanById",
             "updateCompleted"}
    \/ (pc[j] = "done" /\ jobQueue[j].status = "completed")

\* executeScanJob is past its call of saveScanFindings
PastSaveScanFindings(j) ==
  pc[j] \in {"invokeLLM", "getScanById", "updateCompleted"}
    \/ (pc[j] = "done" /\ jobQueue[j].status = "completed")

CountRows(rows, kind) ==
  Cardinality({i \in 1..Len(rows) : rows[i].resultType = kind})

\* C13: a report built from the rows executeScanJob persisted lists every
\* persisted result by kind: its subdomains, liveHosts and urls lists, and
\* the matching summary counts, are as long as there are persisted rows of
\* kind subdomain, host and url.
C13_ReportListsEveryResult ==
  \A j \in Jobs :
    (op = "reported" /\ given = <<j>>) =>
      /\ Len(report.subdomains) = CountRows(scanResults[j], "subdomain")
      /\ Len(report.liveHosts) = CountRows(scanResults[j], "host")
      /\ Len(report.urls) = CountRows(scanResults[j], "url")
      /\ report.summary.subdomains = CountRows(scanResults[j], "subdomain")
      /\ report.summary.hosts = CountRows(scanResults[j], "host")
      /\ report.summary.urls = CountRows(scanResults[j], "url")

\* the severities of the stored findings of j
Severities(j) ==
  {scanFindings[j][i].severity : i \in 1..Len(scanFindings[j])}

\* C14: the riskLevel of a report is critical if any stored finding has
\* severity critical, otherwise high if any has severity high, otherwise
\* medium if there is a finding at all, otherwise low; it is determined by
\* the severities that occur.
C14_RiskLevelFromSeverities ==
  \A j \in Jobs :
    (op = "reported" /\ given = <<j>>) =>
      report.riskLevel =
        IF "critical" \in Severities(j) THEN "critical"
        ELSE IF "high" \in Severities(j) THEN "high"
        ELSE IF Severities(j) # {} THEN "medium"
        ELSE "low"

\* a report over findings of severity high and medium, none critical
C14_Witness ==
  \E j \in Jobs :
    /\ op = "reported"
    /\ given = <<j>>
    /\ Len(scanFindings[j]) = MaxFindings
    /\ Severities(j) = {"medium", "high"}
    /\ scanFindings[j][1].severity = "medium"
    /\ report.riskLevel = "high"

\* the positions of the stored findings of j with severity critical or high
SeverePositions(j) ==
  {i \in 1..Len(scanFindings[j]) :
     scanFindings[j][i].severity \in {"critical", "high"}}

\* the k-th of them, counted from the front
KthSevere(j, k) ==
  CHOOSE i \in SeverePositions(j) :
    Cardinality({h \in SeverePositions(j) : h < i}) = k - 1

\* C15: the recommendations of a report are one line per stored finding of
\* severity critical or high, in the order of the findings list, cut to the
\* first 5; findings of severity medium, low or info give no line.
C15_RecommendationsCapped ==
  \A j \in Jobs :
    (op = "reported" /\ given = <<j>>) =>
      LET n == Cardinality(SeverePositions(j))
      IN  /\ Len(report.recommendations) = IF n < 5 THEN n ELSE 5
          /\ \A k \in 1..Len(report.recommendations) :
               LET f == scanFindings[j][KthSevere(j, k)]
               IN  report.recommendations[k]
                     = <<"Address ", f.findingType, ": ">> \o f.value

\* a report over six findings of severity critical or high, of both kinds
C15_Witness ==
  \E j \in Jobs :
    /\ op = "reported"
    /\ given = <<j>>
    /\ Cardinality(SeverePositions(j)) > 5
    /\ Severities(j) = {"critical", "high"}
    /\ Len(report.recommendations) = 5

\* the kind and the value of a result
KindValue(r) == <<r.type, r.value>>

\* no two entries of rs have the same kind and value
UniqueKeys(rs) ==
  \A a, b \in 1..Len(rs) : a # b => KindValue(rs[a]) # KindValue(rs[b])

\* C19: the results runFullScan returns for a job, which executeScanJob then
\* persists, never hold two entries with the same kind and value, whether
\* every probe resolved or one raised part-way.
C19_ReturnedResultsUnique ==
  \A j \in Jobs : UniqueKeys(results[j].results)

\* the durable record of j is completed with progress 100, and a report
\* built now has risk level low and no recommendation
CleanCompleted(j) ==
  /\ j \in DOMAIN scans
  /\ scans[j].status = "completed"
  /\ scans[j].progress = 100
  /\ generateJsonReport(j).riskLevel = "low"
  /\ generateJsonReport(j).recommendations = <<>>

C17_DedupIdempotent ==
  op = "deduplicatedAgain" =>
    /\ Len(retval) = Len(given)
    /\ \A i \in 1..Len(given) : retval[i] = given[i]

\* the first call dropped entries of a list of full length, and the second
\* call was made with what it kept
C17_Witness ==
  /\ op = "deduplicatedAgain"
  /\ Len(arr) = MaxResults
  /\ Len(given) < Len(arr)
  /\ Len(given) >= 2

\* C18: no two entries of deduplicateResults(R) have the same kind and
\* value, and every pair of kind and value that occurs in R occurs in the
\* output.
C18_DedupUniqueAndComplete ==
  op = "deduplicated" =>
    /\ UniqueKeys(retval)
    /\ \A i \in 1..Len(arr) :
         \E k \in 1..Len(retval) : KindValue(retval[k]) = KindValue(arr[i])

\* a list in which a value occurs twice with one kind and once more with
\* another kind was deduplicated
C18_Witness ==
  /\ op = "deduplicated"
  /\ Len(retval) < Len(arr)
  /\ \E a, b \in 1..Len(retval) :
       /\ retval[a].value = retval[b].value
       /\ retval[a].type # retval[b].type

\* how often x occurs in the list rs
Occurrences(rs, x) == Cardinality({i \in 1..Len(rs) : rs[i] = x})

\* the place of a kind in the order findings, hosts, urls, subdomains
KindRank(t) ==
  CASE t = "finding" -> 1 [] t = "host" -> 2 [] t = "url" -> 3
    [] t = "subdomain" -> 4

\* the place of a severity in the order critical, high, medium, low, info
SeverityRank(v) ==
  CASE v = "critical" -> 1 [] v = "high" -> 2 [] v = "medium" -> 3
    [] v = "low" -> 4 [] v = "info" -> 5

\* C20: sortResults returns a permutation of its input in which findings
\* come before hosts, hosts before urls and urls before subdomains, the
\* findings are in the order of their severity rank (critical, high,
\* medium, low, info), and the entries of each other kind are in the order
\* of their values.
C20_SortOrder ==
  op = "sorted" =>
    /\ Len(retval) = Len(given)
    /\ \A i \in 1..Len(given) :
         Occurrences(retval, given[i]) = Occurrences(given, given[i])
    /\ \A a, b \in 1..Len(retval) :
         a < b =>
           /\ KindRank(retval[a].type) <= KindRank(retval[b].type)
           /\ (retval[a].type = "finding" /\ retval[b].type = "finding")
                => SeverityRank(retval[a].metadata.severity)
                     <= SeverityRank(retval[b].metadata.severity)
           /\ (retval[a].type = retval[b].type /\ retval[a].type # "finding")
                => localeCompare(retval[a].value, retval[b].value) <= 0

\* a list of full length with findings of two severities, two hosts out of
\* order and a subdomain in front was sorted
C20_Witness ==
  /\ op = "sorted"
  /\ Len(given) = MaxResults
  /\ given # retval
  /\ given[1].type = "subdomain"
  /\ \E a, b \in 1..Len(given) :
       /\ a < b
       /\ given[a].type = "host"
       /\ given[b].type = "host"
       /\ localeCompare(given[a].value, given[b].value) > 0
  /\ retval[1].type = "finding"

\* the list holds findings only, each of a severity rank no smaller than
\* that of the one before it
FindingsInSeverityOrder(rs) ==
  /\ \A i \in 1..Len(rs) : rs[i].type = "finding"
  /\ \A a, b \in 1..Len(rs) :
       a < b => SeverityRank(rs[a].metadata.severity)
                  <= SeverityRank(rs[b].metadata.severity)

\* two different findings of the same severity stand in the list
HasEqualSeverityPair(rs) ==
  \E a, b \in 1..Len(rs) :
    /\ a < b
    /\ rs[a] # rs[b]
    /\ rs[a].type = "finding"
    /\ rs[b].type = "finding"
    /\ rs[a].metadata.severity = rs[b].metadata.severity

\* C21: sortResults leaves a list of findings that is in severity order
\* unchanged, findings of equal severity keeping their places, and sorting
\* a second time returns what the first sort returned.
C21_SortStable ==
  /\ (op = "sorted" /\ FindingsInSeverityOrder(given)) => retval = given
  /\ op = "sortedAgain" => retval = given

\* a list of full length holding two different findings of one severity was
\* put in order by the first sort and sorted again
C21_Witness ==
  /\ op = "sortedAgain"
  /\ Len(given) = MaxResults
  /\ FindingsInSeverityOrder(given)
  /\ HasEqualSeverityPair(given)
  /\ given[1].metadata.severity # given[Len(given)].metadata.severity

\* how many entries of rs are of the kind t
CountKind(rs, t) == Cardinality({i \in 1..Len(rs) : rs[i].type = t})

\* how many entries of rs are findings with a severity in sevs
CountSelectFindings(rs, sevs) ==
  Cardinality({i \in 1..Len(rs) :
                 rs[i].type = "finding" /\ rs[i].metadata.severity \in sevs})

\* C22: generateSummary returns the length of the list as total, one count
\* per kind, the four adding up to the total, the number of findings of
\* severity critical as critical count, and the number of findings of
\* severity high or critical as high count.
C22_SummaryCounts ==
  op = "summarized" =>
    /\ retval.totalResults = Len(given)
    /\ retval.subdomains = CountKind(given, "subdomain")
    /\ retval.hosts = CountKind(given, "host")
    /\ retval.urls = CountKind(given, "url")
    /\ retval.findings = CountKind(given, "finding")
    /\ retval.subdomains + retval.hosts + retval.urls + retval.findings
         = retval.totalResults
    /\ retval.criticalFindings = CountSelectFindings(given, {"critical"})
    /\ retval.highFindings = CountSelectFindings(given, {"high", "critical"})

\* p is the list of the first Len(p) entries of s
IsPrefix(p, s) ==
  /\ Len(p) <= Len(s)
  /\ \A i \in 1..Len(p) : p[i] = s[i]

\* C23: in every run of runFullScan the vulnerability scan and the
\* misconfiguration check are called with at most as many live hosts as the
\* cap allows, the first ones of the live-host list; a host beyond the cap
\* is never handed to them.
C23_AssessmentCapped ==
  \A j \in Jobs :
    pc[j] \in {"scanForVulnerabilities", "checkMisconfigurations"} =>
      /\ Len(probeArg[j]) <= EndpointHostCap
      /\ IsPrefix(probeArg[j], liveHostNames[j])

\* C24: in every reachable state the durable record of a job has completedAt
\* set if and only if its status is completed.
C24_CompletedAtIffCompleted ==
  \A j \in DOMAIN scans :
    (scans[j].completedAt # NULL) <=> (scans[j].status = "completed")

\* C25: a failure of the language-model call never changes the outcome of a
\* job: the step in which invokeLLM settles, with a text or with an error,
\* leaves the registry entry, the durable record, the stored results and
\* findings and the writes in flight as they are, continues executeScanJob
\* at its read of the record, and puts the fixed placeholder in the place
\* of the text when the call failed; a job whose call failed ends completed
\* in the registry like any other.
C25_AdvisoryFailureIsolated ==
  /\ [][\A j \in Jobs :
         (pc[j] = "invokeLLM" /\ pc'[j] # "invokeLLM") =>
           /\ pc'[j] = "getScanById"
           /\ analysis'[j] \in {"analysis", AnalysisPlaceholder}
           /\ UNCHANGED <<scans, scanResults, scanFindings, jobQueue,
                          pending, results>>]_vars
  /\ [](\A j \in Jobs :
         (pc[j] = "done" /\ analysis[j] = AnalysisPlaceholder)
           => jobQueue[j].status = "completed")

\* the language-model call of a job failed, and the job has settled as
\* completed in the registry and in its durable record, its results stored
C25_Witness ==
  \E j \in Jobs :
    /\ pc[j] = "done"
    /\ pending[j] = {}
    /\ analysis[j] = AnalysisPlaceholder
    /\ jobQueue[j].status = "completed"
    /\ scans[j].status = "completed"
    /\ scans[j].progress = 100
    /\ scanResults[j] # <<>>

\* C26: generateJsonReport resolves with null, and does not raise, whenever
\* the record of the job is absent or no result of the job is stored.
C26_NotFoundWithoutResults ==
  \A j \in Jobs :
    (/\ op \in {"reported", "noReport"}
     /\ given = <<j>>
     /\ (j \notin DOMAIN scans \/ scanResults[j] = <<>>))
      => op = "noReport"

\* the registry entry of k, if there is one
EntryOf(k) == IF k \in DOMAIN jobQueue THEN {jobQueue[k]} ELSE {}

\* the durable record of k, if there is one
RecordOf(k) == IF k \in DOMAIN scans THEN {scans[k]} ELSE {}

\* the step is one of job j: its position moves or one of its status
\* writes is sent or settles
StepOf(j) == pc'[j] # pc[j] \/ pending'[j] # pending[j]

\* C27: with two jobs running interleaved, a step of one job's startScanJob
\* or executeScanJob leaves the registry entry, the durable record and the
\* stored results and findings of the other job unchanged.
C27_JobsDoNotInterfere ==
  [][\A j \in TwoJobs :
       StepOf(j) =>
         \A k \in TwoJobs \ {j} :
           /\ EntryOf(k)' = EntryOf(k)
           /\ RecordOf(k)' = RecordOf(k)
           /\ scanResults'[k] = scanResults[k]
           /\ scanFindings'[k] = scanFindings[k]
           /\ pc'[k] = pc[k]
           /\ pending'[k] = pending[k]]_vars

\* one job has stored its results and findings and waits for its completed
\* write while the pipeline of the other is still running, with a progress
\* write of its own in flight
C27_Witness ==
  \E j, k \in TwoJobs :
    /\ j # k
    /\ pc[j] = "updateCompleted"
    /\ scanResults[j] # <<>>
    /\ scanFindings[j] # <<>>
    /\ pc[k] \in ProbePcs
    /\ \E w \in pending[k] : ~w.awaited
    /\ k \in DOMAIN scans
    /\ k \in DOMAIN jobQueue
    /\ scanResults[k] = <<>>

\* C28: normalizeDomain strips the scheme, a leading www. and a trailing
\* slash and lower-cases the target: a domain written with any of these
\* around it comes back in its lower-case form, and
\* "https://www.Example.com/" gives "example.com".
C28_NormalizeDomain ==
  op = "normalized" =>
    /\ given = ExampleUrl => retval = ExampleDomain
    /\ \A pad \in PadParts, sch \in SchemeParts, w \in WwwParts,
          b \in DomainBodies, sl \in SlashParts :
         given = pad \o sch \o w \o b.raw \o sl => retval = b.canon

\* normalizeDomain was called with "https://www.Example.com/"
C28_Witness ==
  /\ op = "normalized"
  /\ given = ExampleUrl
  /\ retval = ExampleDomain

EmitRank(label) ==
  CASE label = "Normalizing domain"           -> 1
    [] label = "Discovering subdomains"       -> 2
    [] label = "Detecting live hosts"         -> 3
    [] label = "Scanning for vulnerabilities" -> 4
    [] label = "Completed"                    -> 5
    [] OTHER                                  -> 0

\* C30: the progress writes of a job reach its durable record in the order
\* in which runFullScan emitted the events: while the record is running, a
\* write never puts the label of an earlier event over that of a later one.
C30_ProgressWritesInOrder ==
  [][\A j \in DOMAIN scans :
       (scans[j].status = "running" /\ scans'[j].status = "running")
         => EmitRank(scans'[j].currentStep) >= EmitRank(scans[j].currentStep)]_vars

\* the probes whose resolution is the work of step k of runFullScan
StepProbes(k) ==
  CASE k = 2 -> {"discoverSubdomains"}
    [] k = 3 -> {"detectLiveHosts", "crawlUrls"}
    [] k = 4 -> {"scanForVulnerabilities", "checkMisconfigurations"}
    [] OTHER -> {}

\* the probes of job j that have been invoked and have settled
Resolved(j) == {calls[j][i] : i \in 1..Len(calls[j])} \ inflight[j]

\* C31: the progress event of step k, with percent round(k/4*100), is
\* emitted only after the work of step k has resolved; an event with percent
\* 100 is emitted only once every stage probe has resolved, and it carries
\* the label "Completed".
C31_ProgressAfterStepWork ==
  [][\A j \in Jobs : \A w \in ProgressWrites(j)' \ ProgressWrites(j) :
       /\ \A k \in 2..4 :
            w.progress = StepPercent(k) => StepProbes(k) \subseteq Resolved(j)'
       /\ w.progress = 100 =>
            (w.currentStep = "Completed" /\ inflight'[j] = {})]_vars

\* the hosts an answer of the liveness probe reports alive
ReportedAlive(liveHosts) ==
  {liveHosts[i].host : i \in {k \in 1..Len(liveHosts) : liveHosts[k].isAlive}}

\* the values of the host results runFullScan has accumulated
HostValues(j) ==
  LET hs == ValuesOfType(allResults[j], "host")
  IN  {hs[i] : i \in 1..Len(hs)}

\* the hosts of the probe call in flight, for a probe called with a list
ProbedHosts(j) == {probeArg[j][i] : i \in 1..Len(probeArg[j])}

\* C32: in runFullScan the liveness probe receives every candidate name
\* that asset discovery returned; URL crawling, endpoint detection and the
\* assessment probes are invoked only on hosts the liveness probe reported
\* alive; every result of kind host has a value the liveness probe reported
\* alive.
C32_OnlyLiveHostsProbed ==
  /\ [](\A j \in Jobs :
          /\ pc[j] = "detectLiveHosts"
               => probeArg[j] = ValuesOfType(allResults[j], "subdomain")
          /\ pc[j] \in {"crawlUrls", "scanForVulnerabilities",
                        "checkMisconfigurations"}
               => ProbedHosts(j) \subseteq HostValues(j)
          /\ pc[j] = "detectEndpoints" => probeArg[j] \in HostValues(j)
          /\ LET hs == ValuesOfType(results[j].results, "host")
             IN  \A i \in 1..Len(hs) : hs[i] \in HostValues(j))
  /\ [][\A j \in Jobs :
          (pc[j] = "detectLiveHosts" /\ pc'[j] = "crawlUrls") =>
            \E alive \in LiveChoices(probeArg[j]) :
              LET reported == ReportedAlive(detectLiveHosts(probeArg[j], alive))
              IN  /\ HostValues(j)' = reported
                  /\ ProbedHosts(j)' \subseteq reported
                  /\ {liveHostNames'[j][i] : i \in 1..Len(liveHostNames'[j])}
                       \subseteq reported]_vars

\* discovery returned two names, the liveness probe reported one of them
\* alive, and the assessment probe was called with that one host
C32_Witness ==
  \E j \in Jobs :
    /\ pc[j] = "scanForVulnerabilities"
    /\ Len(ValuesOfType(allResults[j], "subdomain")) = 2
    /\ Len(probeArg[j]) = 1
    /\ ProbedHosts(j) = HostValues(j)

\* the positions of rs that hold the first entry with their kind and value
FirstPositions(rs) ==
  {i \in 1..Len(rs) : \A k \in 1..(i - 1) : KindValue(rs[k]) # KindValue(rs[i])}

\* the k-th of a set of positions, counted from the lowest
KthPosition(ps, k) == CHOOSE i \in ps : Cardinality({m \in ps : m <= i}) = k

\* C33: deduplicateResults keeps, for each pair of kind and value, exactly
\* the first entry of its input with that pair, with that entry's metadata,
\* and the entries it keeps are in their original relative order.
C33_DedupKeepsFirst ==
  op = "deduplicated" =>
    /\ Len(retval) = Cardinality(FirstPositions(arr))
    /\ \A k \in 1..Len(retval) : retval[k] = arr[KthPosition(FirstPositions(arr), k)]

\* a list was deduplicated in which two entries of one kind and value differ
\* in their metadata, and an entry of another key stands after them
C33_Witness ==
  /\ op = "deduplicated"
  /\ Len(retval) >= 2
  /\ \E i, k \in 1..Len(arr) :
       /\ i < k
       /\ KindValue(arr[i]) = KindValue(arr[k])
       /\ arr[i].metadata # arr[k].metadata
       /\ k < Len(arr)
       /\ KindValue(arr[Len(arr)]) # KindValue(arr[i])

\* C34: deduplicateResults, sortResults and generateSummary are pure: the
\* list passed to them is the same afterwards, element for element and in
\* the same order, as it was at the call.
C34_NormalizerPure ==
  op \in {"deduplicated", "sorted", "summarized"} => arr = given

\* C35: runFullScan never rejects: when a stage probe raises, or a write
\* sent by the progress callback fails, runFullScan still resolves with a
\* ScanResults value, and the catch branch of executeScanJob is not entered
\* because of the stage error.
C35_RunFullScanNeverRejects ==
  /\ [][\A j \in Jobs :
          /\ (pc[j] \in ProbePcs /\ pc'[j] # pc[j])
               => pc'[j] \in ProbePcs \cup {"resultsReady"}
          /\ errors'[j] # errors[j]
               => /\ pc'[j] = "resultsReady"
                  /\ results'[j].errors = errors'[j]
                  /\ results'[j].results = allResults[j]
                  /\ results'[j].summary = generateSummary(allResults[j])
                  /\ pending'[j] = pending[j]
                  /\ jobQueue' = jobQueue
          /\ (pc[j] \in ProbePcs /\ pending'[j] # pending[j]
                /\ pending'[j] \subseteq pending[j])
               => (pc'[j] = pc[j] /\ results'[j] = results[j])
          /\ (pc'[j] = "updateFailed" /\ pc[j] # "updateFailed")
               => pc[j] = "resultsReady"]_vars
  /\ [](\A j \in DOMAIN jobQueue :
          jobQueue[j].status = "failed" => jobQueue[j].error \notin ProbeErrors)

\* discovery raised, runFullScan resolved, and executeScanJob went on in
\* its try branch to store the findings
C35_Witness ==
  \E j \in Jobs :
    /\ ProbeRaised(j)
    /\ RaisedIn(j) = "discoverSubdomains"
    /\ results[j].errors = errors[j]
    /\ pc[j] = "saveScanFindings"

C37_RecordFollowsRegistry ==
  \A j \in Jobs : \A s \in TerminalStatus :
    []((j \in DOMAIN jobQueue /\ jobQueue[j].status = s)
         => <>(j \in DOMAIN scans /\ scans[j].status = s))

\* the writes of status completed that are in flight for job j
CompletedWrites(j) == {w \in pending[j] : w.status = "completed"}

\* C38: the write of status completed to the durable record of a job is
\* sent only after saveScanResults and saveScanFindings of that job have
\* both returned, so whoever reads completed from the record reads it after
\* the job's result persistence.
C38_CompletedAfterPersistence ==
  /\ [](\A j \in Jobs :
          (CompletedWrites(j) # {}
             \/ (j \in DOMAIN scans /\ scans[j].status = "completed"))
            => (PastSaveScanResults(j) /\ PastSaveScanFindings(j)))
  /\ [][\A j \in Jobs :
          (CompletedWrites(j)' # {} /\ CompletedWrites(j) = {})
            => (pc[j] = "getScanById" /\ PastSaveScanFindings(j))]_vars

\* the record reads completed with the results and the findings of the job
\* in the store, before the registry entry has been set
C38_Witness ==
  \E j \in Jobs :
    /\ j \in DOMAIN scans
    /\ scans[j].status = "completed"
    /\ scanResults[j] # <<>>
    /\ scanFindings[j] # <<>>
    /\ pc[j] = "updateCompleted"
    /\ jobQueue[j].status = "running"

\* runFullScan of job j returned without an error
Succeeded(j) ==
  /\ pc[j] \in {"resultsReady", "saveScanResults", "saveScanFindings",
                "invokeLLM", "getScanById", "updateCompleted", "done"}
  /\ errors[j] = <<>>
  /\ calls[j] # <<>>

\* C39: the result set of a successful runFullScan has at most one result
\* of kind finding per finding title: of the findings with one title, found
\* on different hosts, it holds the first and no other.
C39_OneFindingPerTitle ==
  \A j \in Jobs :
    Succeeded(j) =>
      LET found == SelectFindings(allResults[j])
          kept  == SelectFindings(results[j].results)
      IN  /\ \A a, b \in 1..Len(kept) : kept[a].value = kept[b].value => a = b
          /\ \A a \in 1..Len(kept) :
               \E i \in 1..Len(found) :
                 /\ kept[a] = found[i]
                 /\ \A k \in 1..(i - 1) : found[k].value # found[i].value
          /\ \A i \in 1..Len(found) :
               \E a \in 1..Len(kept) : kept[a].value = found[i].value

\* the same titles were found on two hosts, and the result set holds each
\* title once
C39_Witness ==
  \E j \in Jobs :
    /\ Succeeded(j)
    /\ pc[j] = "resultsReady"
    /\ Len(liveHostNames[j]) = 2
    /\ Len(SelectFindings(results[j].results)) = 2
    /\ Len(SelectFindings(allResults[j])) = 2 * 2

\* C40: normalizeDomain is idempotent, and every target validateTarget
\* accepts normalizes to a string validateTarget accepts as well: called
\* with the string it returned, normalizeDomain returns that string, and
\* validateTarget(normalizeDomain(t)) is valid whenever validateTarget(t) is.
C40_NormalizeIdempotentAndValid ==
  /\ op = "normalizedAgain" => retval = given
  /\ op = "validatedNormalized" => (validateTarget(given).valid => retval.valid)

====
